---- MODULE Spec2Model ----
(***************************************************************************)
(* Model of bnema/purego-webp.                                             *)
(*                                                                         *)
(*   internal/libwebp/loader.go  the one-time dynamic loader               *)
(*   libwebp/libwebp.go          the public wrappers over the bindings     *)
(*   cmd/gen/main.go             the binding generator                     *)
(*                                                                         *)
(* Spec     : the loader and the wrappers, called from several goroutines. *)
(* SpecGen  : the generator's pure functions applied to bounded inputs.    *)
(***************************************************************************)
EXTENDS Integers, Sequences, FiniteSets, TLC

(***************************************************************************)
(* Bounds                                                                  *)
(***************************************************************************)
\* number of goroutines that call into the package
NumThreads == 2
\* number of calls the process makes in one behaviour
MaxCalls == 3

\* number of descriptors in a descriptor list
MaxFuncs == 3

Threads == 1..NumThreads
NoThread == 0

VARIABLES
    \* ---- environment of the process (fixed at start) ----
    goos,        \* runtime.GOOS
    openable,    \* library file names purego.Dlopen can open on this host
    exported,    \* symbols the installed library exports (purego.Dlsym)
    \* ---- loader.go package state ----
    onceDone,    \* loadOnce: the done flag of sync.Once
    onceM,       \* loadOnce: holder of the mutex of sync.Once, or NoThread
    loadErr,     \* loadErr
    fnPtrs,      \* the generated function pointer variables that are non-nil
    \* ---- goroutines ----
    pc,          \* position of each goroutine
    loc,         \* locals of the load closure: [i, errs, h]
    last,        \* the most recent return of a public function
    calls,       \* calls started so far
    \* ---- observers (the counting stand-ins for open and resolve) ----
    dlopenLog,   \* names passed to purego.Dlopen, in call order
    dlsymLog,    \* symbols passed to purego.Dlsym, in call order
    openPasses,  \* invocations of openLib
    regPasses,   \* invocations of registerAll
    returned,    \* every value EnsureLoaded has returned
    nativeFailed,\* some native call has signalled failure
    \* ---- generator ----
    genIn,       \* the descriptor list given to buildTemplateData
    genOut,      \* its result, or NotRun
    \* ---- ABI layout ----
    lay,         \* the layout of a struct type being computed, or NoLayout
    px           \* a call of a function of pixels or data being made, or NoCall

envVars    == <<goos, openable, exported>>
loaderVars == <<onceDone, onceM, loadErr, fnPtrs>>
threadVars == <<pc, loc, last, calls>>
ghostVars  == <<dlopenLog, dlsymLog, openPasses, regPasses, returned, nativeFailed>>
genVars    == <<genIn, genOut>>
vars == <<envVars, loaderVars, threadVars, ghostVars, genVars, lay, px>>

(***************************************************************************)
(* Errors.  A Go error value is a record; NilErr is the nil error.         *)
(***************************************************************************)
Err(kind, what, errs) == [kind |-> kind, what |-> what, errs |-> errs]
NilErr == Err("nil", "", <<>>)

\* the sentinel errors of package libwebp
ErrInvalidData      == Err("sentinel", "libwebp: invalid webp data", <<>>)
ErrDecodeFailed     == Err("sentinel", "libwebp: decode failed", <<>>)
ErrEncodeFailed     == Err("sentinel", "libwebp: encode failed", <<>>)
ErrInvalidDimension == Err("sentinel", "libwebp: invalid dimensions", <<>>)
ErrInvalidStride    == Err("sentinel", "libwebp: invalid stride", <<>>)
ErrBufferTooSmall   == Err("sentinel", "libwebp: output buffer too small", <<>>)

\* the cause purego.Dlopen / purego.Dlsym report for a name they cannot find
DlError(name) == Err("dl", name, <<>>)

\* fmt.Errorf("%s: %w", name, err)
WrapOpen(name, cause) == Err("open", name, <<cause>>)
\* fmt.Errorf("resolve %s: %w", symbol, err)
WrapResolve(symbol, cause) == Err("resolve", symbol, <<cause>>)
\* errors.Join(errs...): nil when there is nothing to join
JoinErrs(errs) == IF errs = <<>> THEN NilErr ELSE Err("join", "", errs)

(***************************************************************************)
(* loader.go: library discovery                                            *)
(***************************************************************************)
GoosValues == {"linux", "darwin", "windows", "freebsd"}

candidateLibNames(os) ==
    CASE os = "linux"   -> <<"libwebp.so", "libwebp.so.8", "libwebp.so.7", "libwebp.so.6">>
      [] os = "darwin"  -> <<"libwebp.dylib">>
      [] os = "windows" -> <<"libwebp.dll", "webp.dll">>
      [] OTHER          -> <<"libwebp.so">>

Range(s) == {s[i] : i \in 1..Len(s)}

\* the zero handle
NullLib == ""

\* purego.Dlopen(name, RTLD_NOW|RTLD_GLOBAL): the handle of the library (here
\* its file name) or an error
Dlopen(name) ==
    IF name \in openable
    THEN [lib |-> name, err |-> NilErr]
    ELSE [lib |-> NullLib, err |-> DlError(name)]

\* purego.Dlsym(lib, symbol): whether the symbol has an address in lib
Dlsym(lib, symbol) ==
    IF lib # NullLib /\ symbol \in exported
    THEN [found |-> TRUE, err |-> NilErr]
    ELSE [found |-> FALSE, err |-> DlError(symbol)]

\* Mutant of openLibIter: an opened library is noted but the loop goes on to
\* the next candidate instead of returning.
openLibIterKeepsGoing(name, errs) ==
    LET r == Dlopen(name) IN
    IF r.err = NilErr
    THEN [ret |-> FALSE, lib |-> r.lib,   errs |-> errs]
    ELSE [ret |-> FALSE, lib |-> NullLib, errs |-> Append(errs, WrapOpen(name, r.err))]

\* Mutant of openLibIter: the error of a candidate replaces the errors
\* gathered so far instead of being appended to them.
openLibIterLastError(name, errs) ==
    LET r == Dlopen(name) IN
    IF r.err = NilErr
    THEN [ret |-> TRUE,  lib |-> r.lib,   errs |-> errs]
    ELSE [ret |-> FALSE, lib |-> NullLib, errs |-> <<WrapOpen(name, r.err)>>]

\* One iteration of the loop of openLib over candidate `name`, with the
\* errors gathered so far: either the function returns (lib, nil), or the
\* wrapped error is appended and the loop goes on.
openLibIter(name, errs) ==
    LET r == Dlopen(name) IN
    IF r.err = NilErr
    THEN [ret |-> TRUE,  lib |-> r.lib,   errs |-> errs]
    ELSE [ret |-> FALSE, lib |-> NullLib, errs |-> Append(errs, WrapOpen(name, r.err))]

\* openLib after the loop: return 0, errors.Join(errs...)
openLibTail(errs) == [lib |-> NullLib, err |-> JoinErrs(errs)]

(***************************************************************************)
(* loader.go: symbol registration                                          *)
(***************************************************************************)
\* Mutant of register: a symbol that does not resolve is skipped without an
\* error, as registerOptional does.
registerSwallow(lib, ptrs, fn, symbol) ==
    LET r == Dlsym(lib, symbol) IN
    IF ~r.found
    THEN [err |-> NilErr, ptrs |-> ptrs]
    ELSE [err |-> NilErr, ptrs |-> ptrs \cup {fn}]

\* register(lib, fnPtr, symbol): the error, and the bound pointers afterwards
register(lib, ptrs, fn, symbol) ==
    LET r == Dlsym(lib, symbol) IN
    IF ~r.found
    THEN [err |-> WrapResolve(symbol, r.err), ptrs |-> ptrs]
    ELSE [err |-> NilErr, ptrs |-> ptrs \cup {fn}]

\* registerOptional(lib, fnPtr, symbol): the bound pointers afterwards
registerOptional(lib, ptrs, fn, symbol) ==
    LET r == Dlsym(lib, symbol) IN
    IF ~r.found THEN ptrs ELSE ptrs \cup {fn}

\* The bindings registerAll registers, in order (the generated file is built
\* from the descriptor list; one descriptor is optional).
Bindings ==
    << [name |-> "xWebPGetInfo",               symbol |-> "WebPGetInfo",               optional |-> FALSE],
       [name |-> "xWebPDecodeRGBA",            symbol |-> "WebPDecodeRGBA",            optional |-> FALSE],
       [name |-> "xWebPValidateDecoderConfig", symbol |-> "WebPValidateDecoderConfig", optional |-> TRUE],
       [name |-> "xWebPEncodeRGBA",            symbol |-> "WebPEncodeRGBA",            optional |-> FALSE],
       [name |-> "xWebPFree",                  symbol |-> "WebPFree",                  optional |-> FALSE] >>

AllSymbols       == {Bindings[i].symbol : i \in 1..Len(Bindings)}
MandatoryIdx     == {i \in 1..Len(Bindings) : ~Bindings[i].optional}
MandatorySymbols == {Bindings[i].symbol : i \in MandatoryIdx}
MandatoryPtrs    == {Bindings[i].name : i \in MandatoryIdx}

\* One statement of registerAll: binding b is registered; a mandatory one
\* that fails makes registerAll return its error.
registerAllIter(lib, ptrs, b) ==
    IF b.optional
    THEN [err |-> NilErr, ptrs |-> registerOptional(lib, ptrs, b.name, b.symbol)]
    ELSE register(lib, ptrs, b.name, b.symbol)

(***************************************************************************)
(* loader.go: what the public loader functions return once loadOnce.Do     *)
(* has returned                                                            *)
(***************************************************************************)
\* EnsureLoaded: return loadErr
EnsureLoadedResult(ldErr) == ldErr

\* Mutant of Available: only a library that could not be opened counts as
\* unavailable.
AvailableIfOpened(ldErr) == EnsureLoadedResult(ldErr).kind # "join"

\* Available: EnsureLoaded() == nil
Available(ldErr) == EnsureLoadedResult(ldErr) = NilErr

\* Mutant of ValidateDecoderConfigAvailable: the function pointer is not
\* looked at.
ValidateDecoderConfigAvailableNoPtr(ldErr, ptrs) ==
    EnsureLoadedResult(ldErr) = NilErr

\* ValidateDecoderConfigAvailable:
\* EnsureLoaded() == nil && xWebPValidateDecoderConfig != nil
ValidateDecoderConfigAvailable(ldErr, ptrs) ==
    EnsureLoadedResult(ldErr) = NilErr /\ "xWebPValidateDecoderConfig" \in ptrs

(***************************************************************************)
(* libwebp.go: wrappers.  A wrapper is a function of the memoized load     *)
(* outcome, its arguments and what the native function answers (nat).      *)
(* The result tells the error, the values returned, whether the native     *)
(* function was called and how it answered, and the calls of WebPFree.     *)
(***************************************************************************)
CallResult(err, vals, native, freed) ==
    [err |-> err, vals |-> vals, native |-> native, freed |-> freed, trace |-> <<>>,
     args |-> <<>>]

\* a call of the native function fn with the arguments args, answering ret
NativeCall(fn, args, ret) == [fn |-> fn, args |-> args, ret |-> ret]

\* the result r of a wrapper that made the native calls of trace, in order
Traced(r, trace) == [r EXCEPT !.trace = trace]

\* the result r of a wrapper that was called with the arguments args
WithArgs(r, args) == [r EXCEPT !.args = args]

(***************************************************************************)
(* Go's int where the library runs on 64-bit words: a two's complement     *)
(* integer of IntSize bytes, kept as the sequence of its bytes, the least  *)
(* significant first.  Its arithmetic wraps around silently.  An int32 is  *)
(* kept as a number.                                                       *)
(***************************************************************************)
IntSize == 8

\* 256^k, k in 0..3
Pow256(k) == CASE k = 0 -> 1 [] k = 1 -> 256 [] k = 2 -> 65536 [] OTHER -> 16777216

\* int(n) of a number n within the range of int32: sign extension
GoInt(n) ==
    [k \in 1..IntSize |->
        IF k <= 4 THEN (n \div Pow256(k - 1)) % 256 ELSE IF n < 0 THEN 255 ELSE 0]

\* the int 2^e, 0 <= e < 8*IntSize (the lowest int for e = 8*IntSize - 1)
Pow2(e) == [k \in 1..IntSize |-> IF k - 1 = e \div 8 THEN 2 ^ (e % 8) ELSE 0]

\* x < 0, x == 0 of ints
IsNeg(x) == x[IntSize] >= 128
IsZero(x) == \A k \in 1..IntSize : x[k] = 0

\* x < y of ints
Less(x, y) ==
    IF IsNeg(x) # IsNeg(y) THEN IsNeg(x)
    ELSE \E k \in 1..IntSize :
            /\ x[k] < y[k]
            /\ \A j \in (k + 1)..IntSize : x[j] = y[j]

\* x + y of ints
Plus(x, y) ==
    LET carry[k \in 0..IntSize] ==
            IF k = 0 THEN 0 ELSE (x[k] + y[k] + carry[k - 1]) \div 256
    IN  [k \in 1..IntSize |-> (x[k] + y[k] + carry[k - 1]) % 256]

\* x * y of ints: the low eight bytes of the product, column by column
\* with the carry of the column before
Times(x, y) ==
    LET c1 == x[1]*y[1]
        c2 == x[1]*y[2] + x[2]*y[1] + c1 \div 256
        c3 == x[1]*y[3] + x[2]*y[2] + x[3]*y[1] + c2 \div 256
        c4 == x[1]*y[4] + x[2]*y[3] + x[3]*y[2] + x[4]*y[1] + c3 \div 256
        c5 == x[1]*y[5] + x[2]*y[4] + x[3]*y[3] + x[4]*y[2] + x[5]*y[1] + c4 \div 256
        c6 == x[1]*y[6] + x[2]*y[5] + x[3]*y[4] + x[4]*y[3] + x[5]*y[2] + x[6]*y[1]
                + c5 \div 256
        c7 == x[1]*y[7] + x[2]*y[6] + x[3]*y[5] + x[4]*y[4] + x[5]*y[3] + x[6]*y[2]
                + x[7]*y[1] + c6 \div 256
        c8 == x[1]*y[8] + x[2]*y[7] + x[3]*y[6] + x[4]*y[5] + x[5]*y[4] + x[6]*y[3]
                + x[7]*y[2] + x[8]*y[1] + c7 \div 256
    IN  <<c1 % 256, c2 % 256, c3 % 256, c4 % 256, c5 % 256, c6 % 256, c7 % 256, c8 % 256>>

\* int32(x) of an int: its low four bytes, read as two's complement
Int32(x) ==
    x[1] + 256 * x[2] + 65536 * x[3]
         + 16777216 * (IF x[4] >= 128 THEN x[4] - 256 ELSE x[4])

\* validatePixelInput(pix, width, height, stride, bytesPerPixel); width,
\* height and stride are ints, len(pix) and bytesPerPixel small numbers
validatePixelInput(pixLen, width, height, stride, bytesPerPixel) ==
    IF IsNeg(width) \/ IsZero(width) \/ IsNeg(height) \/ IsZero(height)
    THEN ErrInvalidDimension
    ELSE IF Less(stride, Times(width, GoInt(bytesPerPixel))) THEN ErrInvalidStride
    ELSE IF Less(GoInt(pixLen), Times(stride, height))
         THEN Err("fmt", "libwebp: pixel buffer too small",
                  <<[got |-> pixLen, need |-> Times(stride, height)]>>)
    ELSE NilErr

\* the panic of Go's runtime at &s[0] for an empty slice s
PanicIndex == Err("panic", "index out of range [0] with length 0", <<>>)

\* decodeToOwnedBuffer(data, bytesPerPixel, fn); nat = [ptr, w, h] is what fn
\* returns and stores; vals = <<len(pix), width, height, stride>>
decodeToOwnedBuffer(ldErr, dataLen, bytesPerPixel, nat) ==
    IF EnsureLoadedResult(ldErr) # NilErr
    THEN CallResult(EnsureLoadedResult(ldErr), <<0, 0, 0, 0>>, "none", 0)
    ELSE IF dataLen = 0
    THEN CallResult(ErrInvalidData, <<0, 0, 0, 0>>, "none", 0)
    ELSE IF nat.ptr = 0
    THEN Traced(CallResult(ErrDecodeFailed, <<0, 0, 0, 0>>, "failed", 0),
                <<NativeCall("decodeFunc", <<dataLen>>, nat.ptr)>>)
    ELSE IF nat.w <= 0 \/ nat.h <= 0
    THEN Traced(CallResult(ErrInvalidDimension, <<0, 0, 0, 0>>, "ok", 1),
                <<NativeCall("decodeFunc", <<dataLen>>, nat.ptr),
                  NativeCall("WebPFree", <<nat.ptr>>, 0)>>)
    ELSE LET stride == nat.w * bytesPerPixel
             bufLen == stride * nat.h
         IN  Traced(CallResult(NilErr, <<bufLen, nat.w, nat.h, stride>>, "ok", 1),
                    <<NativeCall("decodeFunc", <<dataLen>>, nat.ptr),
                      NativeCall("WebPFree", <<nat.ptr>>, 0)>>)

\* encodeWithQuality(pix, width, height, stride, bytesPerPixel, quality, fn);
\* nat = [size, out] is what fn returns and stores; vals = <<len(b)>>; fn
\* receives int32(width), int32(height), int32(stride); &pix[0] panics for
\* an empty pix
encodeWithQuality(ldErr, pixLen, width, height, stride, bytesPerPixel, nat) ==
    IF EnsureLoadedResult(ldErr) # NilErr
    THEN CallResult(EnsureLoadedResult(ldErr), <<0>>, "none", 0)
    ELSE IF validatePixelInput(pixLen, width, height, stride, bytesPerPixel) # NilErr
    THEN CallResult(validatePixelInput(pixLen, width, height, stride, bytesPerPixel),
                    <<0>>, "none", 0)
    ELSE IF pixLen = 0
    THEN CallResult(PanicIndex, <<0>>, "panic", 0)
    ELSE IF nat.size = 0 \/ nat.out = 0
    THEN Traced(CallResult(ErrEncodeFailed, <<0>>, "failed", 0),
                <<NativeCall("encodeLossyFunc",
                             <<Int32(width), Int32(height), Int32(stride)>>, nat)>>)
    ELSE Traced(CallResult(NilErr, <<nat.size>>, "ok", 1),
                <<NativeCall("encodeLossyFunc",
                             <<Int32(width), Int32(height), Int32(stride)>>, nat),
                  NativeCall("WebPFree", <<nat.out>>, 0)>>)

\* encodeLossless(pix, width, height, stride, bytesPerPixel, fn);
\* nat = [size, out] is what fn returns and stores; vals = <<len(b)>>
encodeLossless(ldErr, pixLen, width, height, stride, bytesPerPixel, nat) ==
    IF EnsureLoadedResult(ldErr) # NilErr
    THEN CallResult(EnsureLoadedResult(ldErr), <<0>>, "none", 0)
    ELSE IF validatePixelInput(pixLen, width, height, stride, bytesPerPixel) # NilErr
    THEN CallResult(validatePixelInput(pixLen, width, height, stride, bytesPerPixel),
                    <<0>>, "none", 0)
    ELSE IF pixLen = 0
    THEN CallResult(PanicIndex, <<0>>, "panic", 0)
    ELSE IF nat.size = 0 \/ nat.out = 0
    THEN Traced(CallResult(ErrEncodeFailed, <<0>>, "failed", 0),
                <<NativeCall("encodeLosslessFunc",
                             <<Int32(width), Int32(height), Int32(stride)>>, nat)>>)
    ELSE Traced(CallResult(NilErr, <<nat.size>>, "ok", 1),
                <<NativeCall("encodeLosslessFunc",
                             <<Int32(width), Int32(height), Int32(stride)>>, nat),
                  NativeCall("WebPFree", <<nat.out>>, 0)>>)

\* WebPDecodeYUV(data); nat = [ptr, w, h, ys, uvs] is what the native function
\* returns and stores; vals = <<len(y), len(u), len(v), width, height,
\* yStride, uvStride>>
WebPDecodeYUV(ldErr, dataLen, nat) ==
    IF EnsureLoadedResult(ldErr) # NilErr
    THEN CallResult(EnsureLoadedResult(ldErr), <<0, 0, 0, 0, 0, 0, 0>>, "none", 0)
    ELSE IF dataLen = 0
    THEN CallResult(ErrInvalidData, <<0, 0, 0, 0, 0, 0, 0>>, "none", 0)
    ELSE IF nat.ptr = 0
    THEN Traced(CallResult(ErrDecodeFailed, <<0, 0, 0, 0, 0, 0, 0>>, "failed", 0),
                <<NativeCall("WebPDecodeYUV", <<dataLen>>, nat.ptr)>>)
    ELSE IF nat.w <= 0 \/ nat.h <= 0
    THEN Traced(CallResult(ErrInvalidDimension, <<0, 0, 0, 0, 0, 0, 0>>, "ok", 1),
                <<NativeCall("WebPDecodeYUV", <<dataLen>>, nat.ptr),
                  NativeCall("WebPFree", <<nat.ptr>>, 0)>>)
    ELSE Traced(CallResult(NilErr,
                    <<nat.ys * nat.h, nat.uvs * ((nat.h + 1) \div 2),
                      nat.uvs * ((nat.h + 1) \div 2), nat.w, nat.h, nat.ys, nat.uvs>>,
                    "ok", 1),
                <<NativeCall("WebPDecodeYUV", <<dataLen>>, nat.ptr),
                  NativeCall("WebPFree", <<nat.ptr>>, 0)>>)

\* WebPINewDecoder(outputBuffer); idec is the handle the native function
\* returns; vals = <<idec>>
WebPINewDecoder(ldErr, idec) ==
    IF EnsureLoadedResult(ldErr) # NilErr
    THEN CallResult(EnsureLoadedResult(ldErr), <<0>>, "none", 0)
    ELSE IF idec = 0
    THEN Traced(CallResult(ErrDecodeFailed, <<0>>, "failed", 0),
                <<NativeCall("WebPINewDecoder", <<>>, idec)>>)
    ELSE Traced(CallResult(NilErr, <<idec>>, "ok", 0),
                <<NativeCall("WebPINewDecoder", <<>>, idec)>>)

\* the status the incremental wrappers return for a call they refuse
VP8StatusInvalidParam == 2

\* WebPIAppend(idec, data); nat is the status the native function returns;
\* vals = <<status>>; the native function receives &data[0] and len(data)
WebPIAppend(ldErr, idec, dataLen, nat) ==
    IF EnsureLoadedResult(ldErr) # NilErr
    THEN CallResult(EnsureLoadedResult(ldErr), <<0>>, "none", 0)
    ELSE IF idec = 0 \/ dataLen = 0
    THEN CallResult(ErrInvalidData, <<VP8StatusInvalidParam>>, "none", 0)
    ELSE Traced(CallResult(NilErr, <<nat>>, "ok", 0),
                <<NativeCall("WebPIAppend", <<idec, dataLen>>, nat)>>)

\* WebPIUpdate(idec, data); nat is the status the native function returns;
\* vals = <<status>>
WebPIUpdate(ldErr, idec, dataLen, nat) ==
    IF EnsureLoadedResult(ldErr) # NilErr
    THEN CallResult(EnsureLoadedResult(ldErr), <<0>>, "none", 0)
    ELSE IF idec = 0 \/ dataLen = 0
    THEN CallResult(ErrInvalidData, <<VP8StatusInvalidParam>>, "none", 0)
    ELSE Traced(CallResult(NilErr, <<nat>>, "ok", 0),
                <<NativeCall("WebPIUpdate", <<idec, dataLen>>, nat)>>)

\* WebPIDecode(data, config); idec is the handle the native function
\* returns; vals = <<idec>>
WebPIDecode(ldErr, dataLen, idec) ==
    IF EnsureLoadedResult(ldErr) # NilErr
    THEN CallResult(EnsureLoadedResult(ldErr), <<0>>, "none", 0)
    ELSE IF dataLen = 0
    THEN CallResult(ErrInvalidData, <<0>>, "none", 0)
    ELSE IF idec = 0
    THEN Traced(CallResult(ErrDecodeFailed, <<0>>, "failed", 0),
                <<NativeCall("WebPIDecode", <<dataLen>>, idec)>>)
    ELSE Traced(CallResult(NilErr, <<idec>>, "ok", 0),
                <<NativeCall("WebPIDecode", <<dataLen>>, idec)>>)

\* Version(); nat = [dec, enc] is what the two native functions answer;
\* vals = <<decoder, encoder>>
Version(ldErr, nat) ==
    IF EnsureLoadedResult(ldErr) # NilErr
    THEN CallResult(EnsureLoadedResult(ldErr), <<0, 0>>, "none", 0)
    ELSE Traced(CallResult(NilErr, <<nat.dec, nat.enc>>, "ok", 0),
                <<NativeCall("WebPGetDecoderVersion", <<>>, nat.dec),
                  NativeCall("WebPGetEncoderVersion", <<>>, nat.enc)>>)

\* Mutant of WebPGetInfo: the load outcome is not looked at.
WebPGetInfoNoLoadCheck(ldErr, dataLen, nat) ==
    IF dataLen = 0
    THEN CallResult(NilErr, <<0, 0, FALSE>>, "none", 0)
    ELSE Traced(CallResult(NilErr, <<nat.w, nat.h, nat.ret # 0>>,
                           IF nat.ret # 0 THEN "ok" ELSE "failed", 0),
                <<NativeCall("WebPGetInfo", <<dataLen>>, nat.ret)>>)

\* WebPGetInfo(data); nat = [ret, w, h] is what the native function returns
\* and stores; vals = <<width, height, ok>>
WebPGetInfo(ldErr, dataLen, nat) ==
    IF EnsureLoadedResult(ldErr) # NilErr
    THEN CallResult(EnsureLoadedResult(ldErr), <<0, 0, FALSE>>, "none", 0)
    ELSE IF dataLen = 0
    THEN CallResult(NilErr, <<0, 0, FALSE>>, "none", 0)
    ELSE Traced(CallResult(NilErr, <<nat.w, nat.h, nat.ret # 0>>,
                           IF nat.ret # 0 THEN "ok" ELSE "failed", 0),
                <<NativeCall("WebPGetInfo", <<dataLen>>, nat.ret)>>)

\* decodeInto after WebPGetInfo accepted the data with the result info;
\* ptr is what the native decoder returns; outputStride is an int, and the
\* decoder receives int32(outputStride)
decodeAfterInfo(info, dataLen, outLen, outputStride, bytesPerPixel, ptr) ==
    IF Less(outputStride, Times(GoInt(info.vals[1]), GoInt(bytesPerPixel)))
    THEN Traced(CallResult(ErrInvalidStride, <<0, 0>>, "none", 0), info.trace)
    ELSE IF Less(GoInt(outLen), Times(outputStride, GoInt(info.vals[2])))
    THEN Traced(CallResult(ErrBufferTooSmall, <<0, 0>>, "none", 0), info.trace)
    ELSE IF ptr = 0
    THEN Traced(CallResult(ErrDecodeFailed, <<0, 0>>, "failed", 0),
                Append(info.trace,
                       NativeCall("decodeIntoFunc",
                                  <<dataLen, outLen, Int32(outputStride)>>, ptr)))
    ELSE Traced(CallResult(NilErr, <<info.vals[1], info.vals[2]>>, "ok", 0),
                Append(info.trace,
                       NativeCall("decodeIntoFunc",
                                  <<dataLen, outLen, Int32(outputStride)>>, ptr)))

\* decodeInto from the return of its WebPGetInfo(data), whose result is info
decodeWithInfo(info, dataLen, outLen, outputStride, bytesPerPixel, ptr) ==
    IF info.err # NilErr
    THEN Traced(CallResult(info.err, <<0, 0>>, "none", 0), info.trace)
    ELSE IF ~info.vals[3]
    THEN Traced(CallResult(ErrInvalidData, <<0, 0>>, "none", 0), info.trace)
    ELSE decodeAfterInfo(info, dataLen, outLen, outputStride, bytesPerPixel, ptr)

\* decodeInto(data, outputBuffer, outputStride, bytesPerPixel, fn); nat is
\* what the native WebPGetInfo answers and ptr what fn returns;
\* vals = <<width, height>>
decodeInto(ldErr, dataLen, outLen, outputStride, bytesPerPixel, nat, ptr) ==
    IF EnsureLoadedResult(ldErr) # NilErr
    THEN CallResult(EnsureLoadedResult(ldErr), <<0, 0>>, "none", 0)
    ELSE IF dataLen = 0
    THEN CallResult(ErrInvalidData, <<0, 0>>, "none", 0)
    ELSE IF outLen = 0
    THEN CallResult(ErrBufferTooSmall, <<0, 0>>, "none", 0)
    ELSE decodeWithInfo(WebPGetInfo(ldErr, dataLen, nat), dataLen, outLen, outputStride,
                        bytesPerPixel, ptr)

\* the compiled-in ABI versions and the constants the initializers use
WebPDecoderABIVersion == 528
WebPEncoderABIVersion == 528
PresetDefault == 0
VP8StatusNotEnoughData == 7

\* an argument of a native call: the constant it names (none for a value the
\* caller supplied or a literal) and its value
Const(name, value) == [const |-> name, value |-> value]
Arg(value) == Const("", value)
DecoderABI == Const("WebPDecoderABIVersion", WebPDecoderABIVersion)
EncoderABI == Const("WebPEncoderABIVersion", WebPEncoderABIVersion)

\* the result of an initializer that called the native function fn with args
\* and was answered ret: ok is ret != 0, the error is nil
InitCalled(fn, args, ret) ==
    Traced(CallResult(NilErr, <<ret # 0>>, IF ret # 0 THEN "ok" ELSE "failed", 0),
           <<NativeCall(fn, args, ret)>>)

\* the result of a wrapper returning (false, err) without a native call
InitRefused(err) == CallResult(err, <<FALSE>>, "none", 0)

\* WebPGetFeatures(data); nat = [status, raw] is what the native function
\* returns and stores; vals = <<features, status>>
WebPGetFeatures(ldErr, dataLen, nat) ==
    IF EnsureLoadedResult(ldErr) # NilErr
    THEN CallResult(EnsureLoadedResult(ldErr), <<0, 0>>, "none", 0)
    ELSE IF dataLen = 0
    THEN CallResult(NilErr, <<0, VP8StatusNotEnoughData>>, "none", 0)
    ELSE Traced(CallResult(NilErr,
                    <<[Width |-> nat.raw.Width, Height |-> nat.raw.Height,
                       HasAlpha |-> nat.raw.HasAlpha # 0,
                       HasAnimation |-> nat.raw.HasAnimation # 0,
                       Format |-> nat.raw.Format], nat.status>>,
                    IF nat.status = 0 THEN "ok" ELSE "failed", 0),
                <<NativeCall("WebPGetFeaturesInternal", <<Arg(dataLen), DecoderABI>>,
                             nat.status)>>)

\* WebPInitDecBuffer(buffer)
WebPInitDecBuffer(ldErr, bufferNil, ret) ==
    IF EnsureLoadedResult(ldErr) # NilErr THEN InitRefused(EnsureLoadedResult(ldErr))
    ELSE IF bufferNil THEN InitRefused(ErrInvalidData)
    ELSE InitCalled("WebPInitDecBufferInternal", <<DecoderABI>>, ret)

\* WebPInitDecoderConfig(config)
WebPInitDecoderConfig(ldErr, configNil, ret) ==
    IF EnsureLoadedResult(ldErr) # NilErr THEN InitRefused(EnsureLoadedResult(ldErr))
    ELSE IF configNil THEN InitRefused(ErrInvalidData)
    ELSE InitCalled("WebPInitDecoderConfigInternal", <<DecoderABI>>, ret)

\* the Go runtime's panic on a call through a nil function variable
PanicNilDeref == Err("panic", "invalid memory address or nil pointer dereference", <<>>)

\* the generated callable lowlevel.<fn>: it forwards to the function pointer
\* x<fn>, bound or not; the call through an unbound pointer panics
Forward(ptrs, fn, args, ret) ==
    IF ("x" \o fn) \in ptrs
    THEN InitCalled(fn, args, ret)
    ELSE Traced(CallResult(PanicNilDeref, <<FALSE>>, "unbound", 0),
                <<NativeCall(fn, args, 0)>>)

\* WebPValidateDecoderConfig(config)
WebPValidateDecoderConfig(ldErr, ptrs, configNil, ret) ==
    IF EnsureLoadedResult(ldErr) # NilErr THEN InitRefused(EnsureLoadedResult(ldErr))
    ELSE IF configNil THEN InitRefused(ErrInvalidData)
    ELSE Forward(ptrs, "WebPValidateDecoderConfig", <<>>, ret)

\* WebPConfigInit(config)
WebPConfigInit(ldErr, configNil, ret) ==
    IF EnsureLoadedResult(ldErr) # NilErr THEN InitRefused(EnsureLoadedResult(ldErr))
    ELSE IF configNil THEN InitRefused(ErrInvalidData)
    ELSE InitCalled("WebPConfigInitInternal",
                    <<Const("PresetDefault", PresetDefault), Arg(75), EncoderABI>>, ret)

\* Mutant of WebPConfigPreset: the preset is passed where the version goes.
WebPConfigPresetVersionFromArg(ldErr, configNil, preset, quality, ret) ==
    IF EnsureLoadedResult(ldErr) # NilErr THEN InitRefused(EnsureLoadedResult(ldErr))
    ELSE IF configNil THEN InitRefused(ErrInvalidData)
    ELSE InitCalled("WebPConfigInitInternal", <<Arg(preset), Arg(quality), Arg(preset)>>, ret)

\* WebPConfigPreset(config, preset, quality)
WebPConfigPreset(ldErr, configNil, preset, quality, ret) ==
    IF EnsureLoadedResult(ldErr) # NilErr THEN InitRefused(EnsureLoadedResult(ldErr))
    ELSE IF configNil THEN InitRefused(ErrInvalidData)
    ELSE InitCalled("WebPConfigInitInternal", <<Arg(preset), Arg(quality), EncoderABI>>, ret)

\* WebPPictureInit(picture)
WebPPictureInit(ldErr, pictureNil, ret) ==
    IF EnsureLoadedResult(ldErr) # NilErr THEN InitRefused(EnsureLoadedResult(ldErr))
    ELSE IF pictureNil THEN InitRefused(ErrInvalidData)
    ELSE InitCalled("WebPPictureInitInternal", <<EncoderABI>>, ret)

\* Mutant of WrapperFrame: the error of a failed native call is stored as the
\* load outcome.
WrapperFramePoison(r) ==
    /\ loadErr' = IF r.native = "failed" THEN r.err ELSE loadErr
    /\ UNCHANGED <<onceDone, onceM, fnPtrs>>

\* A wrapper call assigns none of the loader's variables, whatever its result.
WrapperFrame(r) == UNCHANGED <<onceDone, onceM, loadErr, fnPtrs>>

\* the calls the goroutines make: len(data) of a decode call, and what the
\* native decode function may answer
DecodeDataLens == {0, 8}
NatDecode == { [ptr |-> 0, w |-> 0, h |-> 0],
               [ptr |-> 1, w |-> 2, h |-> 1],
               [ptr |-> 1, w |-> 0, h |-> 1] }
\* what the native WebPDecodeYUV may answer
NatDecodeYUV == { [ptr |-> 0, w |-> 0, h |-> 0, ys |-> 0, uvs |-> 0],
                  [ptr |-> 1, w |-> 2, h |-> 1, ys |-> 2, uvs |-> 1],
                  [ptr |-> 1, w |-> 2, h |-> 0, ys |-> 2, uvs |-> 1] }
\* <<len(pix), width, height, stride>> of an encode call, and what the native
\* encode function may answer
EncodeArgs == { <<4, GoInt(1), GoInt(1), GoInt(4)>>, <<4, GoInt(0), GoInt(1), GoInt(4)>> }
NatEncode == { [size |-> 0, out |-> 0], [size |-> 0, out |-> 1],
               [size |-> 2, out |-> 0], [size |-> 2, out |-> 1] }
\* the handle the native WebPINewDecoder may answer
NatHandles == {0, 1}

\* what the native version functions may answer
NatVersions == { [dec |-> 66816, enc |-> 66816], [dec |-> 66048, enc |-> 66816] }
\* what the native WebPGetInfo may answer and store: an image of one row
\* and of two rows accepted, and data rejected with the dimensions left at 0
\* or written
NatInfo == { [ret |-> 1, w |-> 2, h |-> 1], [ret |-> 1, w |-> 2, h |-> 2],
             [ret |-> 0, w |-> 0, h |-> 0], [ret |-> 0, w |-> 2, h |-> 1] }
\* <<len(outputBuffer), outputStride>> of a decode-into call, the stride
\* being any int: an empty buffer; a buffer and a stride that fit one row;
\* a buffer too small for its stride; a stride below the width; a buffer too
\* small for a stride below the width; a wider stride; the stride 2^62
IntoArgs == { <<0, GoInt(8)>>, <<8, GoInt(8)>>, <<4, GoInt(8)>>, <<8, GoInt(4)>>,
              <<2, GoInt(4)>>, <<16, GoInt(12)>>, <<8, Pow2(62)>> }

\* the decode-into calls of the functions of pixels: those, and one whose
\* buffer holds two rows
PixelInto == IntoArgs \cup { <<16, GoInt(8)>> }

\* <<len(pix), width, height, stride>> of the encode calls with dimensions of
\* any size: refused for the dimension, the stride, the buffer, each before
\* the next; accepted; and with the width 2^62, 2^62 + 1, the height and
\* stride 2^32, the stride 2^62
PixelArgs ==
    EncodeArgs \cup
    { <<0, GoInt(0), GoInt(1), GoInt(0)>>,
      <<4, GoInt(1), GoInt(-1), GoInt(4)>>,
      <<0, GoInt(2), GoInt(1), GoInt(4)>>,
      <<4, GoInt(1), GoInt(1), GoInt(-4)>>,
      <<0, GoInt(1), GoInt(1), GoInt(4)>>,
      <<4, GoInt(1), GoInt(2), GoInt(4)>>,
      <<8, GoInt(1), GoInt(2), GoInt(4)>>,
      <<0, Pow2(62), GoInt(1), GoInt(0)>>,
      <<4, Plus(Pow2(62), GoInt(1)), GoInt(1), GoInt(4)>>,
      <<0, GoInt(1), Pow2(32), Pow2(32)>>,
      <<1, GoInt(1), GoInt(4), Pow2(62)>> }

\* what the native WebPGetFeaturesInternal may answer
NatFeatures ==
    { [status |-> 0, raw |-> [Width |-> 2, Height |-> 1, HasAlpha |-> 1,
                              HasAnimation |-> 0, Format |-> 1]],
      [status |-> 3, raw |-> [Width |-> 0, Height |-> 0, HasAlpha |-> 0,
                              HasAnimation |-> 0, Format |-> 0]] }
\* what a native initializer may answer: 0 on an ABI mismatch
NatInit == {0, 1}
\* the presets and qualities a caller passes; 528 is the value of the ABI
\* version itself
Presets == {0, 3, 528}
Qualities == {75, 528}

(***************************************************************************)
(* cmd/gen/main.go: the signature parser.                                  *)
(*                                                                         *)
(* parseFunction hands "package p\nvar _ <signature>" to go/parser.  A     *)
(* signature text is given here by its tokens, over the alphabet           *)
(*     func  (  )  ,  *  []  identifier                                    *)
(* and SigText gives the text itself.  ParseType and its helpers follow    *)
(* go/parser on these tokens (parseType, parseParameters,                  *)
(* parseParameterList, parseParamDecl, parseResult) and go/printer for the *)
(* text of a type (format.Node).                                           *)
(***************************************************************************)
RECURSIVE JoinStr(_, _)
\* strings.Join(parts, sep)
JoinStr(parts, sep) ==
    IF parts = <<>> THEN ""
    ELSE IF Len(parts) = 1 THEN parts[1]
    ELSE parts[1] \o sep \o JoinStr(Tail(parts), sep)

\* the signature text of a token sequence
SigText(toks) == JoinStr(toks, " ")

Punct == {"func", "(", ")", ",", "*", "[]", "EOF"}
Tok(toks, p) == IF p <= Len(toks) THEN toks[p] ELSE "EOF"
IsIdent(tok) == tok \notin Punct
\* the tokens a type begins with
StartsType(tok) == IsIdent(tok) \/ tok \in {"*", "[]", "func", "("}

\* An ast.Expr that is a type: an identifier, *X, []X, (X) or a function
\* type with its parameter and result fields.  x holds X, if any.
Node(kind, name, x, params, results) ==
    [kind |-> kind, name |-> name, x |-> x, params |-> params, results |-> results]
BadExpr == Node("bad", "", <<>>, <<>>, <<>>)
\* an ast.Field
Field(names, type) == [names |-> names, type |-> type]

RECURSIVE typesExprString(_)
RECURSIVE FieldsText(_)

\* go/printer, stripParensAlways
RECURSIVE stripParensAlways(_)
stripParensAlways(n) == IF n.kind = "paren" THEN stripParensAlways(n.x[1]) ELSE n

\* go/printer: the names of a field, a blank, its type
NamesAndType(names, typeText) ==
    IF names = <<>> THEN typeText ELSE JoinStr(names, ", ") \o " " \o typeText
\* go/printer: a field of a parameter list
FieldText(f) == NamesAndType(f.names, typesExprString(stripParensAlways(f.type)))
\* go/printer: the fields of a parameter list
FieldsText(fields) ==
    JoinStr([i \in 1..Len(fields) |-> FieldText(fields[i])], ", ")
\* go/printer: the result part of a signature
ResultsText(results) ==
    IF results = <<>> THEN ""
    ELSE IF Len(results) = 1 /\ results[1].names = <<>>
    THEN " " \o FieldText(results[1])
    ELSE " (" \o FieldsText(results) \o ")"

\* go/printer: a parenthesised type; one that is parenthesised already gets
\* no second pair
ParenText(innerIsParen, innerText) ==
    IF innerIsParen THEN innerText ELSE "(" \o innerText \o ")"

\* typesExprString(expr): format.Node on a type
typesExprString(n) ==
    CASE n.kind = "ident" -> n.name
      [] n.kind \in {"star", "slice", "paren"} ->
            LET inner == typesExprString(n.x[1])
            IN  CASE n.kind = "star"  -> "*" \o inner
                  [] n.kind = "slice" -> "[]" \o inner
                  [] OTHER            -> ParenText(n.x[1].kind = "paren", inner)
      [] n.kind = "func"  -> "func(" \o FieldsText(n.params) \o ")" \o ResultsText(n.results)
      [] OTHER            -> "BadExpr"

\* exprString(expr): strings.TrimSpace of the above; the text of a type has
\* no space at either end
exprString(expr) == typesExprString(expr)

Parsed(ok, pos, node) == [ok |-> ok, pos |-> pos, node |-> node]
Bad(pos) == Parsed(FALSE, pos, BadExpr)

RECURSIVE GroupParams(_, _, _, _)
\* parseParameterList, named parameters: each entry without a type takes the
\* type of the next entry that has one, and shares its field
GroupParams(list, i, names, acc) ==
    IF i > Len(list) THEN acc
    ELSE IF list[i].hasTyp
    THEN GroupParams(list, i + 1, <<>>,
                     Append(acc, Field(Append(names, list[i].name), list[i].typ)))
    ELSE GroupParams(list, i + 1, Append(names, list[i].name), acc)

\* parseParameterList after the entries are read: the types are distributed
DistributeParams(list) ==
    LET named == Cardinality({i \in 1..Len(list) : list[i].hasName /\ list[i].hasTyp})
    IN  IF named = 0
        THEN \* all unnamed: the names found are type names
             [ok |-> TRUE,
              fields |-> [i \in 1..Len(list) |->
                             IF list[i].hasTyp
                             THEN Field(<<>>, list[i].typ)
                             ELSE Field(<<>>, Node("ident", list[i].name, <<>>, <<>>, <<>>))]]
        ELSE IF \/ \E i \in 1..Len(list) : list[i].hasTyp /\ ~list[i].hasName
                \/ ~list[Len(list)].hasTyp
        THEN \* mixed named and unnamed parameters, or a name without a type
             [ok |-> FALSE, fields |-> <<>>]
        ELSE [ok |-> TRUE, fields |-> GroupParams(list, 1, <<>>, <<>>)]

RECURSIVE ParseType(_, _)
RECURSIVE ParseSignature(_, _)
RECURSIVE ParseResult(_, _)
RECURSIVE ParseParameters(_, _)
RECURSIVE ParseParamList(_, _, _)

\* a parameter entry as parseParamDecl leaves it: a name, a type, or both
Entry(name, hasName, t, hasTyp) ==
    [ok |-> t.ok, pos |-> t.pos,
     entry |-> [name |-> name, hasName |-> hasName, typ |-> t.node, hasTyp |-> hasTyp]]

\* parseParamDecl: "name Type", "name" or "Type"
ParseParamDecl(toks, p) ==
    IF IsIdent(Tok(toks, p))
    THEN IF StartsType(Tok(toks, p + 1))
         THEN Entry(Tok(toks, p), TRUE, ParseType(toks, p + 1), TRUE)
         ELSE Entry(Tok(toks, p), TRUE, Parsed(TRUE, p + 1, BadExpr), FALSE)
    ELSE IF StartsType(Tok(toks, p))
    THEN Entry("", FALSE, ParseType(toks, p), TRUE)
    ELSE Entry("", FALSE, Bad(p), FALSE)

\* parseParameterList after an entry d: a comma and more, or the closing
\* parenthesis
ParamListAfter(toks, acc, d) ==
    IF ~d.ok THEN [ok |-> FALSE, pos |-> d.pos, list |-> <<>>]
    ELSE IF Tok(toks, d.pos) = ","
    THEN ParseParamList(toks, d.pos + 1, Append(acc, d.entry))
    ELSE IF Tok(toks, d.pos) = ")"
    THEN [ok |-> TRUE, pos |-> d.pos, list |-> Append(acc, d.entry)]
    ELSE [ok |-> FALSE, pos |-> d.pos, list |-> <<>>]

\* parseParameterList: the entries up to the closing parenthesis
ParseParamList(toks, p, acc) ==
    IF Tok(toks, p) = ")" THEN [ok |-> TRUE, pos |-> p, list |-> acc]
    ELSE ParamListAfter(toks, acc, ParseParamDecl(toks, p))

\* the fields of the entries l read up to the closing parenthesis
ParamFields(l) ==
    IF ~l.ok THEN [ok |-> FALSE, pos |-> l.pos, fields |-> <<>>]
    ELSE IF l.list = <<>> THEN [ok |-> TRUE, pos |-> l.pos + 1, fields |-> <<>>]
    ELSE [ok |-> DistributeParams(l.list).ok, pos |-> l.pos + 1,
          fields |-> DistributeParams(l.list).fields]

\* parseParameters: "(" [list] ")"
ParseParameters(toks, p) ==
    IF Tok(toks, p) # "(" THEN [ok |-> FALSE, pos |-> p, fields |-> <<>>]
    ELSE ParamFields(ParseParamList(toks, p + 1, <<>>))

\* the result list that is one type t
OneResult(t) == [ok |-> t.ok, pos |-> t.pos, fields |-> <<Field(<<>>, t.node)>>]

\* parseResult: a parenthesised list, one type, or nothing
ParseResult(toks, p) ==
    IF Tok(toks, p) = "(" THEN ParseParameters(toks, p)
    ELSE IF StartsType(Tok(toks, p)) THEN OneResult(ParseType(toks, p))
    ELSE [ok |-> TRUE, pos |-> p, fields |-> <<>>]

\* the function type of parameters ps and results rs; the parser, in mode
\* 0, reports no name declared twice
FuncType(ps, rs) ==
    IF ~rs.ok THEN Bad(rs.pos)
    ELSE Parsed(TRUE, rs.pos, Node("func", "", <<>>, ps.fields, rs.fields))

\* parseFuncType after the parameters ps: the result
SignatureAfter(toks, ps) ==
    IF ~ps.ok THEN Bad(ps.pos) ELSE FuncType(ps, ParseResult(toks, ps.pos))

\* parseFuncType after "func": the parameters, then the result
ParseSignature(toks, p) == SignatureAfter(toks, ParseParameters(toks, p))

\* *X or []X around the parsed X
Unary(tok, t) ==
    IF ~t.ok THEN Bad(t.pos)
    ELSE Parsed(TRUE, t.pos,
                Node(IF tok = "*" THEN "star" ELSE "slice", "", <<t.node>>, <<>>, <<>>))

\* (X) around the parsed X, the closing parenthesis expected
Paren(toks, t) ==
    IF ~t.ok \/ Tok(toks, t.pos) # ")" THEN Bad(t.pos)
    ELSE Parsed(TRUE, t.pos + 1, Node("paren", "", <<t.node>>, <<>>, <<>>))

\* parseType
ParseType(toks, p) ==
    IF IsIdent(Tok(toks, p))
    THEN Parsed(TRUE, p + 1, Node("ident", Tok(toks, p), <<>>, <<>>, <<>>))
    ELSE IF Tok(toks, p) \in {"*", "[]", "("}
    THEN IF Tok(toks, p) = "("
         THEN Paren(toks, ParseType(toks, p + 1))
         ELSE Unary(Tok(toks, p), ParseType(toks, p + 1))
    ELSE IF Tok(toks, p) = "func" THEN ParseSignature(toks, p + 1)
    ELSE Bad(p)

\* the type t of the variable, which the end of the text must follow
WholeText(toks, t) == IF t.ok /\ t.pos = Len(toks) + 1 THEN t ELSE Bad(t.pos)

RECURSIVE IdentListEnd(_, _)
\* parseIdentList after the identifier before token p: each comma is
\* followed by one more identifier; the position after the list, or 0 when
\* an identifier is missing
IdentListEnd(toks, p) ==
    IF Tok(toks, p) # "," THEN p
    ELSE IF IsIdent(Tok(toks, p + 1)) THEN IdentListEnd(toks, p + 2)
    ELSE 0

\* parseValueSpec after the identifier list ended before token p: the type
TypeAfterIdents(toks, p) == IF p = 0 THEN Bad(1) ELSE ParseType(toks, p)

\* parser.ParseFile on "package p\nvar _ <signature>": the text may go on
\* with the identifier list that _ begins, then comes the type
ParseFile(toks) == WholeText(toks, TypeAfterIdents(toks, IdentListEnd(toks, 1)))

(***************************************************************************)
(* cmd/gen/main.go: the generator                                          *)
(***************************************************************************)
\* a specFunction
SpecFunction(name, sig, symbol, optional) ==
    [Name |-> name, Signature |-> sig, Symbol |-> symbol, Optional |-> optional]

\* Mutant of symbolName: the alias is ignored.
symbolNameIgnoresAlias(sf) == sf.Name

\* symbolName(sf)
symbolName(sf) == IF sf.Symbol # "" THEN sf.Symbol ELSE sf.Name

\* one turn of the loop of buildParamsAndArgs: the part and the arguments of
\* a field are put before those of the fields after it
ParamPart(part, args, rest) ==
    [parts |-> <<part>> \o rest.parts, args |-> args \o rest.args]

RECURSIVE ParamParts(_, _, _)
\* the loop of buildParamsAndArgs: parts and args from field i on, autoArg
\* being the number of unnamed fields seen before
ParamParts(fields, i, autoArg) ==
    IF i > Len(fields) THEN [parts |-> <<>>, args |-> <<>>]
    ELSE IF Len(fields[i].names) = 0
    THEN ParamPart(("arg" \o ToString(autoArg)) \o " " \o exprString(fields[i].type),
                   <<"arg" \o ToString(autoArg)>>,
                   ParamParts(fields, i + 1, autoArg + 1))
    ELSE ParamPart(JoinStr(fields[i].names, ", ") \o " " \o exprString(fields[i].type),
                   fields[i].names,
                   ParamParts(fields, i + 1, autoArg))

\* the texts of buildParamsAndArgs from the parts and args gathered
ParamsAndArgsText(r) ==
    [params |-> "(" \o JoinStr(r.parts, ", ") \o ")",
     args   |-> "(" \o JoinStr(r.args, ", ") \o ")"]

\* Mutant of buildParamsAndArgs: the synthetic names are counted from 1.
buildParamsAndArgsFromOne(fields) ==
    IF Len(fields) = 0 THEN [params |-> "()", args |-> "()"]
    ELSE ParamsAndArgsText(ParamParts(fields, 1, 1))

\* buildParamsAndArgs(fields): the parameter text and the argument text
buildParamsAndArgs(fields) ==
    IF Len(fields) = 0 THEN [params |-> "()", args |-> "()"]
    ELSE ParamsAndArgsText(ParamParts(fields, 1, 0))

\* a part of the result text of buildResults
ResultPart(field) ==
    IF Len(field.names) = 0 THEN exprString(field.type)
    ELSE JoinStr(field.names, ", ") \o " " \o exprString(field.type)

\* Mutant of buildResults: a single result is bare whether named or not.
buildResultsBareSingle(fields) ==
    IF Len(fields) = 0 THEN [results |-> "", hasReturn |-> FALSE]
    ELSE IF Len(fields) = 1
    THEN [results |-> " " \o ResultPart(fields[1]), hasReturn |-> TRUE]
    ELSE [results |-> " (" \o JoinStr([i \in 1..Len(fields) |-> ResultPart(fields[i])], ", ")
                           \o ")",
          hasReturn |-> TRUE]

\* buildResults(fields): the result text and HasReturn
buildResults(fields) ==
    IF Len(fields) = 0 THEN [results |-> "", hasReturn |-> FALSE]
    ELSE IF Len(fields) = 1 /\ Len(fields[1].names) = 0
    THEN [results |-> " " \o exprString(fields[1].type), hasReturn |-> TRUE]
    ELSE [results |-> " (" \o JoinStr([i \in 1..Len(fields) |-> ResultPart(fields[i])], ", ")
                           \o ")",
          hasReturn |-> TRUE]

NoFunction ==
    [Name |-> "", Signature |-> "", Symbol |-> "", Params |-> "", Results |-> "",
     Args |-> "", HasReturn |-> FALSE, Optional |-> FALSE]

\* the tmplFunction of sf, its signature parsed into the function type ft
TmplFunction(sf, pa, rs) ==
    [Name      |-> sf.Name,
     Signature |-> SigText(sf.Signature),
     Symbol    |-> symbolName(sf),
     Params    |-> pa.params,
     Results   |-> rs.results,
     Args      |-> pa.args,
     HasReturn |-> rs.hasReturn,
     Optional  |-> sf.Optional]

\* parseFunction after parser.ParseFile returned file
ParsedFunction(sf, file) ==
    IF ~file.ok
    THEN [status |-> "error", err |-> Err("parse signature", sf.Name, <<>>), fn |-> NoFunction]
    ELSE IF file.node.kind # "func"
    THEN [status |-> "panic", err |-> NilErr, fn |-> NoFunction]
    ELSE [status |-> "ok", err |-> NilErr,
          fn |-> TmplFunction(sf, buildParamsAndArgs(file.node.params),
                              buildResults(file.node.results))]

\* parseFunction(sf): "ok" with the tmplFunction, "error" with the wrapped
\* parser error, or "panic" when the text parses as a type that is no
\* function type (the type assertion vs.Type.(*ast.FuncType))
parseFunction(sf) == ParsedFunction(sf, ParseFile(sf.Signature))

RECURSIVE BuildLoop(_, _, _)
\* the loop of buildTemplateData after parseFunction returned tf for
\* descriptor i
BuildLoopAfter(functions, i, funcs, tf) ==
    IF tf.status # "ok"
    THEN [status |-> tf.status, err |-> tf.err, funcs |-> <<>>]
    ELSE BuildLoop(functions, i + 1, Append(funcs, tf.fn))

\* the loop of buildTemplateData from descriptor i on, funcs being the
\* bindings appended so far
BuildLoop(functions, i, funcs) ==
    IF i > Len(functions)
    THEN [status |-> "ok", err |-> NilErr, funcs |-> funcs]
    ELSE BuildLoopAfter(functions, i, funcs, parseFunction(functions[i]))

\* Mutant of buildTemplateData: the loop starts at the second descriptor.
buildTemplateDataSkipsFirst(functions) == BuildLoop(functions, 2, <<>>)

\* buildTemplateData(s)
buildTemplateData(functions) == BuildLoop(functions, 1, <<>>)

\* the calls of main that fail or not as the working directory, the files
\* and the template text have it, in the order main makes them:
\* buildTemplateData comes after readSpec
BeforeBuild == <<"Getwd", "readSpec">>
AfterBuild  == <<"ParseFiles", "Execute", "Source", "WriteFile">>
\* what a run meets: the first of these calls to fail, or none
MainFailures == Range(BeforeBuild) \cup Range(AfterBuild) \cup {"none"}

\* what buildTemplateData has returned when it was not called
NoData == [status |-> "none", err |-> NilErr, funcs |-> <<>>]

\* main ends in the panic of the call `at`, nothing being written
Panicked(at, data) ==
    [ran |-> TRUE, status |-> "panic", at |-> at, data |-> data, written |-> FALSE]

\* main after buildTemplateData returned data: a failed buildTemplateData
\* panics; so do template.ParseFiles, tmpl.Execute, format.Source and
\* os.WriteFile when they fail; otherwise the file is written
MainAfter(data, fails) ==
    IF data.status # "ok" THEN Panicked("buildTemplateData", data)
    ELSE IF fails \in Range(AfterBuild) THEN Panicked(fails, data)
    ELSE [ran |-> TRUE, status |-> "ok", at |-> "", data |-> data, written |-> TRUE]

\* main, on the descriptors of gen/spec.json and with the first call that
\* fails: os.Getwd and readSpec panic before buildTemplateData is called
GenMain(functions, fails) ==
    IF fails \in Range(BeforeBuild) THEN Panicked(fails, NoData)
    ELSE MainAfter(buildTemplateData(functions), fails)

(***************************************************************************)
(* ABI layout definitions: the struct types of package libwebp (internal)  *)
(* and the layout the Go compiler gives them (types.StdSizes): every field *)
(* at the next offset that is a multiple of its alignment, the size of the *)
(* struct rounded up to its largest alignment.                             *)
(***************************************************************************)
Prim(kind) == [kind |-> kind]
ArrayOf(n, elem) == [kind |-> "array", n |-> n, elem |-> elem]
StructOf(name) == [kind |-> "struct", name |-> name]
F(name, type) == [name |-> name, type |-> type]

\* n fields of type int32 with the names given
Int32s(names) == [i \in 1..Len(names) |-> F(names[i], Prim("int32"))]
Uintptrs(names) == [i \in 1..Len(names) |-> F(names[i], Prim("uintptr"))]

StructNames == {"WebPBitstreamFeatures", "WebPRGBABuffer", "WebPYUVABuffer", "WebPDecBuffer",
                "WebPDecoderOptions", "WebPDecoderConfig", "WebPConfig",
                "WebPMemoryWriter", "WebPPicture"}

\* Mutant of WebPDecBufferFields: the Pad field is left out.
WebPDecBufferFieldsNoPad ==
    Int32s(<<"Colorspace", "Width", "Height", "IsExternalMemory">>)
    \o <<F("BufferUnion", ArrayOf(80, Prim("byte"))),
         F("PrivateMemory", Prim("uintptr"))>>

\* type WebPDecBuffer struct
WebPDecBufferFields ==
    Int32s(<<"Colorspace", "Width", "Height", "IsExternalMemory">>)
    \o <<F("BufferUnion", ArrayOf(80, Prim("byte"))),
         F("Pad", ArrayOf(4, Prim("uint32"))),
         F("PrivateMemory", Prim("uintptr"))>>

\* type WebPConfig struct
WebPConfigFields ==
    <<F("Lossless", Prim("int32")), F("Quality", Prim("float32"))>>
    \o Int32s(<<"Method", "ImageHint", "TargetSize">>)
    \o <<F("TargetPSNR", Prim("float32"))>>
    \o Int32s(<<"Segments", "SnsStrength", "FilterStrength", "FilterSharpness",
                "FilterType", "Autofilter", "AlphaCompression", "AlphaFiltering",
                "AlphaQuality", "Pass", "ShowCompressed", "Preprocessing", "Partitions",
                "PartitionLimit", "EmulateJpegSize", "ThreadLevel", "LowMemory",
                "NearLossless", "Exact", "UseDeltaPalette", "UseSharpYuv", "QMin",
                "QMax">>)

\* type WebPPicture struct
WebPPictureFields ==
    Int32s(<<"UseArgb", "Colorspace", "Width", "Height">>)
    \o Uintptrs(<<"Y", "U", "V">>)
    \o Int32s(<<"YStride", "UvStride">>)
    \o <<F("A", Prim("uintptr")), F("AStride", Prim("int32")),
         F("Pad1", ArrayOf(2, Prim("uint32"))),
         F("Argb", Prim("uintptr")), F("ArgbStride", Prim("int32")),
         F("Pad2", ArrayOf(3, Prim("uint32"))),
         F("Writer", Prim("uintptr")), F("CustomPtr", Prim("uintptr")),
         F("ExtraInfoType", Prim("int32")), F("ExtraInfo", Prim("uintptr")),
         F("Stats", Prim("uintptr")),
         F("ErrorCode", Prim("int32")), F("ProgressHook", Prim("uintptr")),
         F("UserData", Prim("uintptr")),
         F("Pad3", ArrayOf(3, Prim("uint32"))),
         F("Pad4", Prim("uintptr")), F("Pad5", Prim("uintptr")),
         F("Pad6", ArrayOf(8, Prim("uint32"))),
         F("Memory", Prim("uintptr")), F("MemoryArgb", Prim("uintptr")),
         F("Pad7", ArrayOf(2, Prim("uintptr")))>>

\* the fields of the struct types, in declaration order
StructFields(name) ==
    CASE name = "WebPBitstreamFeatures" ->
            Int32s(<<"Width", "Height", "HasAlpha", "HasAnimation", "Format">>)
            \o <<F("Pad", ArrayOf(5, Prim("uint32")))>>
      [] name = "WebPRGBABuffer" ->
            <<F("RGBA", Prim("uintptr")), F("Stride", Prim("int32")),
              F("_", Prim("int32")), F("Size", Prim("uintptr"))>>
      [] name = "WebPYUVABuffer" ->
            Uintptrs(<<"Y", "U", "V", "A">>)
            \o Int32s(<<"YStride", "UStride", "VStride", "AStride">>)
            \o Uintptrs(<<"YSize", "USize", "VSize", "ASize">>)
      [] name = "WebPDecBuffer" -> WebPDecBufferFields
      [] name = "WebPConfig"    -> WebPConfigFields
      [] name = "WebPPicture"   -> WebPPictureFields
      [] name = "WebPDecoderOptions" ->
            Int32s(<<"BypassFiltering", "NoFancyUpsampling", "UseCropping", "CropLeft",
                     "CropTop", "CropWidth", "CropHeight", "UseScaling", "ScaledWidth",
                     "ScaledHeight", "UseThreads", "DitheringStrength", "Flip",
                     "AlphaDitheringStrength">>)
            \o <<F("Pad", ArrayOf(5, Prim("uint32")))>>
      [] name = "WebPDecoderConfig" ->
            <<F("Input", StructOf("WebPBitstreamFeatures")),
              F("Output", StructOf("WebPDecBuffer")),
              F("Options", StructOf("WebPDecoderOptions"))>>
      [] name = "WebPMemoryWriter" ->
            Uintptrs(<<"Mem", "Size", "MaxSize">>)
            \o <<F("Pad", ArrayOf(1, Prim("uint32")))>>

\* the sizes of a pointer the layout is computed for
WordSizes == {4, 8}

\* the least multiple of align that is at least n
AlignUp(n, align) == ((n + align - 1) \div align) * align

Max(a, b) == IF a >= b THEN a ELSE b

\* a layout under way: the offsets of the fields placed, the first free
\* offset and the largest alignment seen
EmptyLayout == [offsets |-> <<>>, end |-> 0, align |-> 1]

\* a field of the given size and alignment is placed after those of st
Place(st, size, align) ==
    [offsets |-> Append(st.offsets, AlignUp(st.end, align)),
     end     |-> AlignUp(st.end, align) + size,
     align   |-> Max(st.align, align)]

\* size and alignment of a struct whose fields are laid out as st
Sealed(st) == [size |-> AlignUp(st.end, st.align), align |-> st.align]

\* size and alignment of n elements of size and alignment sa
Repeated(n, sa) == [size |-> n * sa.size, align |-> sa.align]

\* a field whose size and alignment are sa is placed after those of st
PlaceOne(st, sa) == Place(st, sa.size, sa.align)

RECURSIVE SizeAlign(_, _)
RECURSIVE PlaceAll(_, _, _, _)
\* the fields from the i-th on are placed after those of st
PlaceAll(fields, i, st, w) ==
    IF i > Len(fields) THEN st
    ELSE PlaceAll(fields, i + 1, PlaceOne(st, SizeAlign(fields[i].type, w)), w)

\* Sizeof and Alignof of a type for the word size w
SizeAlign(t, w) ==
    CASE t.kind \in {"int32", "uint32", "float32"} -> [size |-> 4, align |-> 4]
      [] t.kind = "byte"    -> [size |-> 1, align |-> 1]
      [] t.kind = "uintptr" -> [size |-> w, align |-> w]
      [] t.kind = "array"   -> Repeated(t.n, SizeAlign(t.elem, w))
      [] t.kind = "struct"  -> Sealed(PlaceAll(StructFields(t.name), 1, EmptyLayout, w))

\* the layout of a struct type not begun
NoLayout == [type |-> "", word |-> 0, at |-> 0, st |-> EmptyLayout, size |-> 0, done |-> FALSE]

\* no call of a function of pixels or data is being made
NoCall == [fn |-> "", args |-> <<>>, nat |-> 0, done |-> FALSE]

(***************************************************************************)
(* The process: goroutines calling the public functions.  Every public     *)
(* function begins with EnsureLoaded(); which function a goroutine is in   *)
(* shows when it goes on after that call.                                  *)
(***************************************************************************)
LoaderOps  == {"EnsureLoaded", "Available", "ValidateDecoderConfigAvailable"}
WrapperOps == {"WebPDecodeRGBA", "WebPEncodeRGBA", "WebPINewDecoder"}

NoLoc == [i |-> 0, errs |-> <<>>, h |-> NullLib]
NoRes == [op |-> "none", err |-> NilErr, ok |-> FALSE,
          vals |-> <<>>, native |-> "none", freed |-> 0, trace |-> <<>>,
          args |-> <<>>]
NotRun == [ran |-> FALSE, status |-> "none", at |-> "",
           data |-> [status |-> "none", err |-> NilErr, funcs |-> <<>>],
           written |-> FALSE]

Result(o, r, ok) ==
    [op |-> o, err |-> r.err, ok |-> ok,
     vals |-> r.vals, native |-> r.native, freed |-> r.freed, trace |-> r.trace,
     args |-> r.args]

InitEnv ==
    /\ goos \in GoosValues
    /\ openable \in SUBSET Range(candidateLibNames(goos))
    /\ exported \in (IF openable = {} THEN {{}} ELSE SUBSET AllSymbols)

InitLoader ==
    /\ onceDone = FALSE
    /\ onceM = NoThread
    /\ loadErr = NilErr
    /\ fnPtrs = {}
    /\ pc = [t \in Threads |-> "idle"]
    /\ loc = [t \in Threads |-> NoLoc]
    /\ last = NoRes
    /\ calls = 0
    /\ dlopenLog = <<>>
    /\ dlsymLog = <<>>
    /\ openPasses = 0
    /\ regPasses = 0
    /\ returned = {}
    /\ nativeFailed = FALSE

Init ==
    /\ InitEnv
    /\ InitLoader
    /\ genIn = <<>>
    /\ genOut = NotRun
    /\ lay = NoLayout
    /\ px = NoCall

\* a goroutine calls a public function, which calls EnsureLoaded()
Call(t) ==
    /\ pc[t] = "idle"
    /\ calls < MaxCalls
    /\ pc' = [pc EXCEPT ![t] = "do"]
    /\ calls' = calls + 1
    /\ UNCHANGED <<envVars, loaderVars, loc, last, ghostVars, genVars, lay, px>>

\* Mutant of OnceFast: a load that is under way counts as done.
OnceFastWhileLoading(t) ==
    /\ pc[t] = "do"
    /\ (onceDone \/ onceM # NoThread)
    /\ pc' = [pc EXCEPT ![t] = "after_do"]
    /\ UNCHANGED <<envVars, loaderVars, loc, last, calls, ghostVars, genVars, lay, px>>

\* sync.Once.Do, fast path: the done flag is set, f is not run
OnceFast(t) ==
    /\ pc[t] = "do"
    /\ onceDone
    /\ pc' = [pc EXCEPT ![t] = "after_do"]
    /\ UNCHANGED <<envVars, loaderVars, loc, last, calls, ghostVars, genVars, lay, px>>

\* sync.Once.Do, slow path: the done flag is clear, go for the mutex
OnceSlow(t) ==
    /\ pc[t] = "do"
    /\ ~onceDone
    /\ pc' = [pc EXCEPT ![t] = "lock"]
    /\ UNCHANGED <<envVars, loaderVars, loc, last, calls, ghostVars, genVars, lay, px>>

\* Mutant of OnceLock: the flag is not looked at again under the mutex.
OnceLockNoRecheck(t) ==
    /\ pc[t] = "lock"
    /\ onceM = NoThread
    /\ onceM' = t
    /\ pc' = [pc EXCEPT ![t] = "open"]
    /\ loc' = [loc EXCEPT ![t] = [i |-> 1, errs |-> <<>>, h |-> NullLib]]
    /\ openPasses' = openPasses + 1
    /\ UNCHANGED <<envVars, onceDone, loadErr, fnPtrs, last, calls,
                   dlopenLog, dlsymLog, regPasses, returned, nativeFailed, genVars, lay, px>>

\* sync.Once.doSlow: with the mutex held, f runs if the flag is still clear;
\* f begins with the call of openLib
OnceLock(t) ==
    /\ pc[t] = "lock"
    /\ onceM = NoThread
    /\ IF onceDone
       THEN /\ pc' = [pc EXCEPT ![t] = "after_do"]
            /\ UNCHANGED <<onceM, loc, openPasses>>
       ELSE /\ onceM' = t
            /\ pc' = [pc EXCEPT ![t] = "open"]
            /\ loc' = [loc EXCEPT ![t] = [i |-> 1, errs |-> <<>>, h |-> NullLib]]
            /\ openPasses' = openPasses + 1
    /\ UNCHANGED <<envVars, onceDone, loadErr, fnPtrs, last, calls,
                   dlopenLog, dlsymLog, regPasses, returned, nativeFailed, genVars, lay, px>>

\* openLib: one candidate is tried
OpenLibStep(t) ==
    /\ pc[t] = "open"
    /\ LET names == candidateLibNames(goos)
           name  == names[loc[t].i]
           r     == openLibIter(name, loc[t].errs)
           tail  == openLibTail(r.errs)
       IN  /\ dlopenLog' = Append(dlopenLog, name)
           /\ IF r.ret
              THEN \* h, err := openLib() gave a handle: registerAll(h) begins
                   /\ loc' = [loc EXCEPT ![t] = [i |-> 1, errs |-> <<>>, h |-> r.lib]]
                   /\ pc' = [pc EXCEPT ![t] = "reg"]
                   /\ regPasses' = regPasses + 1
                   /\ UNCHANGED loadErr
              ELSE IF loc[t].i < Len(names)
              THEN /\ loc' = [loc EXCEPT ![t] = [i |-> loc[t].i + 1, errs |-> r.errs, h |-> NullLib]]
                   /\ UNCHANGED <<pc, regPasses, loadErr>>
              ELSE IF tail.err # NilErr
              THEN \* loadErr = err; return
                   /\ loadErr' = tail.err
                   /\ loc' = [loc EXCEPT ![t] = NoLoc]
                   /\ pc' = [pc EXCEPT ![t] = "exit"]
                   /\ UNCHANGED regPasses
              ELSE /\ loc' = [loc EXCEPT ![t] = [i |-> 1, errs |-> <<>>, h |-> tail.lib]]
                   /\ pc' = [pc EXCEPT ![t] = "reg"]
                   /\ regPasses' = regPasses + 1
                   /\ UNCHANGED loadErr
    /\ UNCHANGED <<envVars, onceDone, onceM, fnPtrs, last, calls,
                   dlsymLog, openPasses, returned, nativeFailed, genVars, lay, px>>

\* registerAll: one binding is registered
RegisterStep(t) ==
    /\ pc[t] = "reg"
    /\ LET b == Bindings[loc[t].i]
           r == registerAllIter(loc[t].h, fnPtrs, b)
       IN  /\ dlsymLog' = Append(dlsymLog, b.symbol)
           /\ fnPtrs' = r.ptrs
           /\ IF r.err # NilErr
              THEN /\ loadErr' = r.err
                   /\ loc' = [loc EXCEPT ![t] = NoLoc]
                   /\ pc' = [pc EXCEPT ![t] = "exit"]
              ELSE IF loc[t].i < Len(Bindings)
              THEN /\ loc' = [loc EXCEPT ![t].i = loc[t].i + 1]
                   /\ UNCHANGED <<pc, loadErr>>
              ELSE /\ loc' = [loc EXCEPT ![t] = NoLoc]
                   /\ pc' = [pc EXCEPT ![t] = "exit"]
                   /\ UNCHANGED loadErr
    /\ UNCHANGED <<envVars, onceDone, onceM, last, calls,
                   dlopenLog, openPasses, regPasses, returned, nativeFailed, genVars, lay, px>>

\* Mutant of OnceFinish: the flag is set only after a successful load, so a
\* failed load is tried again by the next caller.
OnceFinishRetryOnError(t) ==
    /\ pc[t] = "exit"
    /\ onceDone' = (loadErr = NilErr)
    /\ onceM' = NoThread
    /\ pc' = [pc EXCEPT ![t] = "after_do"]
    /\ UNCHANGED <<envVars, loadErr, fnPtrs, loc, last, calls, ghostVars, genVars, lay, px>>

\* sync.Once.doSlow after f: the done flag is set, the mutex released
OnceFinish(t) ==
    /\ pc[t] = "exit"
    /\ onceDone' = TRUE
    /\ onceM' = NoThread
    /\ pc' = [pc EXCEPT ![t] = "after_do"]
    /\ UNCHANGED <<envVars, loadErr, fnPtrs, loc, last, calls, ghostVars, genVars, lay, px>>

\* EnsureLoaded, Available or ValidateDecoderConfigAvailable returns:
\* loadErr (and the optional function pointer) is read
ReturnLoader(t) ==
    /\ pc[t] = "after_do"
    /\ LET e == EnsureLoadedResult(loadErr)
           none == CallResult(NilErr, <<>>, "none", 0)
       IN  /\ returned' = returned \cup {e}
           /\ \E o \in LoaderOps :
                last' = CASE o = "EnsureLoaded" ->
                               Result(o, CallResult(e, <<>>, "none", 0), FALSE)
                          [] o = "Available" ->
                               Result(o, none, Available(loadErr))
                          [] OTHER ->
                               Result(o, none, ValidateDecoderConfigAvailable(loadErr, fnPtrs))
    /\ pc' = [pc EXCEPT ![t] = "idle"]
    /\ UNCHANGED <<envVars, loaderVars, loc, calls,
                   dlopenLog, dlsymLog, openPasses, regPasses, nativeFailed, genVars, lay, px>>

\* the rest of WebPDecodeRGBA (decodeToOwnedBuffer) after its EnsureLoaded():
\* argument checks, the native call, the release, the return
ReturnDecode(t) ==
    /\ pc[t] = "after_do"
    /\ \E n \in DecodeDataLens, nat \in NatDecode :
         LET r == decodeToOwnedBuffer(loadErr, n, 4, nat)
         IN  /\ last' = Result("WebPDecodeRGBA", r, FALSE)
             /\ nativeFailed' = (nativeFailed \/ r.native = "failed")
             /\ WrapperFrame(r)
    /\ returned' = returned \cup {EnsureLoadedResult(loadErr)}
    /\ pc' = [pc EXCEPT ![t] = "idle"]
    /\ UNCHANGED <<envVars, loc, calls,
                   dlopenLog, dlsymLog, openPasses, regPasses, genVars, lay, px>>

\* the rest of WebPEncodeRGBA (encodeWithQuality) after its EnsureLoaded(); a
\* panic ends the process, every goroutine with it
ReturnEncode(t) ==
    /\ pc[t] = "after_do"
    /\ \E a \in EncodeArgs, nat \in NatEncode :
         LET r == encodeWithQuality(loadErr, a[1], a[2], a[3], a[4], 4, nat)
         IN  /\ last' = Result("WebPEncodeRGBA", r, FALSE)
             /\ nativeFailed' = (nativeFailed \/ r.native = "failed")
             /\ WrapperFrame(r)
             /\ pc' = IF r.native = "panic"
                      THEN [u \in Threads |-> "crashed"]
                      ELSE [pc EXCEPT ![t] = "idle"]
    /\ returned' = returned \cup {EnsureLoadedResult(loadErr)}
    /\ UNCHANGED <<envVars, loc, calls,
                   dlopenLog, dlsymLog, openPasses, regPasses, genVars, lay, px>>

\* the rest of WebPINewDecoder after its EnsureLoaded()
ReturnNewDecoder(t) ==
    /\ pc[t] = "after_do"
    /\ \E idec \in NatHandles :
         LET r == WebPINewDecoder(loadErr, idec)
         IN  /\ last' = Result("WebPINewDecoder", r, FALSE)
             /\ nativeFailed' = (nativeFailed \/ r.native = "failed")
             /\ WrapperFrame(r)
    /\ returned' = returned \cup {EnsureLoadedResult(loadErr)}
    /\ pc' = [pc EXCEPT ![t] = "idle"]
    /\ UNCHANGED <<envVars, loc, calls,
                   dlopenLog, dlsymLog, openPasses, regPasses, genVars, lay, px>>

Next ==
    \E t \in Threads :
        \/ Call(t)
        \/ OnceFast(t)
        \/ OnceSlow(t)
        \/ OnceLock(t)
        \/ OpenLibStep(t)
        \/ RegisterStep(t)
        \/ OnceFinish(t)
        \/ ReturnLoader(t)
        \/ ReturnDecode(t)
        \/ ReturnEncode(t)
        \/ ReturnNewDecoder(t)

Spec == Init /\ [][Next]_vars

(***************************************************************************)
(* The process calling the other wrappers of package libwebp, on a host    *)
(* with one candidate library                                              *)
(***************************************************************************)
InitializerOps == {"WebPGetFeatures", "WebPInitDecBuffer", "WebPInitDecoderConfig",
                   "WebPConfigInit", "WebPConfigPreset", "WebPPictureInit"}

\* a wrapper o goes on after its EnsureLoaded() and returns r, ok being the
\* boolean it returns (FALSE for a wrapper that returns none)
ReturnWrapper(t, o, r, ok) ==
    /\ pc[t] = "after_do"
    /\ last' = Result(o, r, ok)
    /\ nativeFailed' = (nativeFailed \/ r.native = "failed")
    /\ WrapperFrame(r)
    /\ returned' = returned \cup {EnsureLoadedResult(loadErr)}
    /\ pc' = [pc EXCEPT ![t] = "idle"]
    /\ UNCHANGED <<envVars, loc, calls,
                   dlopenLog, dlsymLog, openPasses, regPasses, genVars, lay, px>>

ReturnGetFeatures(t) ==
    \E n \in DecodeDataLens, nat \in NatFeatures :
        ReturnWrapper(t, "WebPGetFeatures", WebPGetFeatures(loadErr, n, nat), FALSE)

ReturnInitDecBuffer(t) ==
    \E isNil \in BOOLEAN, ret \in NatInit :
        ReturnWrapper(t, "WebPInitDecBuffer", WebPInitDecBuffer(loadErr, isNil, ret),
                      WebPInitDecBuffer(loadErr, isNil, ret).vals[1])

ReturnInitDecoderConfig(t) ==
    \E isNil \in BOOLEAN, ret \in NatInit :
        ReturnWrapper(t, "WebPInitDecoderConfig", WebPInitDecoderConfig(loadErr, isNil, ret),
                      WebPInitDecoderConfig(loadErr, isNil, ret).vals[1])

ReturnConfigInit(t) ==
    \E isNil \in BOOLEAN, ret \in NatInit :
        ReturnWrapper(t, "WebPConfigInit", WebPConfigInit(loadErr, isNil, ret),
                      WebPConfigInit(loadErr, isNil, ret).vals[1])

ReturnConfigPreset(t) ==
    \E isNil \in BOOLEAN, preset \in Presets, quality \in Qualities, ret \in NatInit :
        ReturnWrapper(t, "WebPConfigPreset",
                      WebPConfigPreset(loadErr, isNil, preset, quality, ret),
                      WebPConfigPreset(loadErr, isNil, preset, quality, ret).vals[1])

ReturnPictureInit(t) ==
    \E isNil \in BOOLEAN, ret \in NatInit :
        ReturnWrapper(t, "WebPPictureInit", WebPPictureInit(loadErr, isNil, ret),
                      WebPPictureInit(loadErr, isNil, ret).vals[1])

ReturnDecodeYUV(t) ==
    \E n \in DecodeDataLens, nat \in NatDecodeYUV :
        ReturnWrapper(t, "WebPDecodeYUV", WebPDecodeYUV(loadErr, n, nat), FALSE)

\* a wrapper o of pixels or data goes on after its EnsureLoaded() and
\* returns r or panics; a panic ends the process, every goroutine with it
PixelsReturn(t, o, r) ==
    /\ pc[t] = "after_do"
    /\ last' = Result(o, r, FALSE)
    /\ nativeFailed' = (nativeFailed \/ r.native = "failed")
    /\ WrapperFrame(r)
    /\ returned' = returned \cup {EnsureLoadedResult(loadErr)}
    /\ pc' = IF r.native = "panic"
             THEN [u \in Threads |-> "crashed"]
             ELSE [pc EXCEPT ![t] = "idle"]
    /\ UNCHANGED <<envVars, loc, calls,
                   dlopenLog, dlsymLog, openPasses, regPasses, genVars, lay>>

\* a wrapper o that encodes pixels goes on after its EnsureLoaded() and
\* returns r or panics
ReturnPixels(t, o, r) == PixelsReturn(t, o, r) /\ UNCHANGED px

\* WebPEncodeLosslessRGBA(rgba, width, height, stride)
ReturnEncodeLossless(t) ==
    \E a \in EncodeArgs, nat \in NatEncode :
        ReturnPixels(t, "WebPEncodeLosslessRGBA",
                     encodeLossless(loadErr, a[1], a[2], a[3], a[4], 4, nat))

\* the rest of WebPValidateDecoderConfig after its EnsureLoaded(); a panic
\* ends the process, every goroutine with it
ReturnValidateDecoderConfig(t) ==
    /\ pc[t] = "after_do"
    /\ \E isNil \in BOOLEAN, ret \in NatInit :
         LET r == WebPValidateDecoderConfig(loadErr, fnPtrs, isNil, ret)
         IN  /\ last' = Result("WebPValidateDecoderConfig", r, r.vals[1])
             /\ nativeFailed' = (nativeFailed \/ r.native = "failed")
             /\ WrapperFrame(r)
             /\ pc' = IF r.native = "unbound"
                      THEN [u \in Threads |-> "crashed"]
                      ELSE [pc EXCEPT ![t] = "idle"]
    /\ returned' = returned \cup {EnsureLoadedResult(loadErr)}
    /\ UNCHANGED <<envVars, loc, calls,
                   dlopenLog, dlsymLog, openPasses, regPasses, genVars, lay, px>>

ReturnVersion(t) ==
    \E nat \in NatVersions : ReturnWrapper(t, "Version", Version(loadErr, nat), FALSE)

ReturnGetInfo(t) ==
    \E n \in DecodeDataLens, nat \in NatInfo :
        ReturnWrapper(t, "WebPGetInfo", WebPGetInfo(loadErr, n, nat),
                      WebPGetInfo(loadErr, n, nat).vals[3])

\* WebPDecodeRGBAInto(data, outputBuffer, outputStride)
ReturnDecodeInto(t) ==
    \E n \in DecodeDataLens, a \in IntoArgs, nat \in NatInfo, ptr \in NatHandles :
        ReturnWrapper(t, "WebPDecodeRGBAInto",
                      WithArgs(decodeInto(loadErr, n, a[1], a[2], 4, nat, ptr),
                               <<n, a[1], a[2], nat>>),
                      FALSE)

\* the library, when it opens, exports every symbol, or every symbol but the
\* optional one, or every symbol but WebPFree
InitWrap ==
    /\ goos = "darwin"
    /\ openable \in SUBSET Range(candidateLibNames(goos))
    /\ exported \in (IF openable = {} THEN {{}}
                     ELSE {AllSymbols, AllSymbols \ {"WebPValidateDecoderConfig"},
                           AllSymbols \ {"WebPFree"}})
    /\ InitLoader
    /\ genIn = <<>>
    /\ genOut = NotRun
    /\ lay = NoLayout
    /\ px = NoCall

NextWrap ==
    \E t \in Threads :
        \/ Call(t)
        \/ OnceFast(t)
        \/ OnceSlow(t)
        \/ OnceLock(t)
        \/ OpenLibStep(t)
        \/ RegisterStep(t)
        \/ OnceFinish(t)
        \/ ReturnDecode(t)
        \/ ReturnEncode(t)
        \/ ReturnNewDecoder(t)
        \/ ReturnGetFeatures(t)
        \/ ReturnInitDecBuffer(t)
        \/ ReturnInitDecoderConfig(t)
        \/ ReturnConfigInit(t)
        \/ ReturnConfigPreset(t)
        \/ ReturnPictureInit(t)
        \/ ReturnDecodeYUV(t)
        \/ ReturnEncodeLossless(t)
        \/ ReturnValidateDecoderConfig(t)
        \/ ReturnVersion(t)
        \/ ReturnGetInfo(t)
        \/ ReturnDecodeInto(t)

SpecWrap == InitWrap /\ [][NextWrap]_vars

(***************************************************************************)
(* The layout of a struct type, computed field by field                    *)
(***************************************************************************)
InitLayout ==
    /\ \E name \in StructNames, w \in WordSizes :
          lay = [NoLayout EXCEPT !.type = name, !.word = w, !.at = 1]
    /\ goos = "linux"
    /\ openable = {}
    /\ exported = {}
    /\ InitLoader
    /\ genIn = <<>>
    /\ genOut = NotRun
    /\ px = NoCall

\* the next field of the struct type is given its offset
PlaceField ==
    /\ lay.type # ""
    /\ lay.at <= Len(StructFields(lay.type))
    /\ lay' = [lay EXCEPT
                 !.st = PlaceOne(lay.st, SizeAlign(StructFields(lay.type)[lay.at].type,
                                                   lay.word)),
                 !.at = lay.at + 1]
    /\ UNCHANGED <<envVars, loaderVars, threadVars, ghostVars, genVars, px>>

\* the fields all placed, the struct type is given its size
SealLayout ==
    /\ lay.type # ""
    /\ lay.at = Len(StructFields(lay.type)) + 1
    /\ ~lay.done
    /\ lay' = [lay EXCEPT !.size = Sealed(lay.st).size, !.done = TRUE]
    /\ UNCHANGED <<envVars, loaderVars, threadVars, ghostVars, genVars, px>>

NextLayout == PlaceField \/ SealLayout

SpecLayout == InitLayout /\ [][NextLayout]_vars

(***************************************************************************)
(* The functions of pixels and data, each called once in a process that    *)
(* has loaded nothing yet, with arguments of any size                      *)
(***************************************************************************)
\* the bytes per pixel of the packed formats
PixelSizes == {3, 4}
\* the statuses the native incremental functions may answer
NatStatuses == {0, VP8StatusNotEnoughData}

\* the calls: of validatePixelInput, <<len(pix), width, height, stride,
\* bytesPerPixel>>; of the encode wrappers, <<len(pix), width, height,
\* stride>>; of WebPDecodeRGBAInto, <<len(data), len(outputBuffer),
\* outputStride, what WebPGetInfo answers>>; of WebPIAppend and WebPIUpdate,
\* <<idec, len(data)>>; of WebPIDecode, <<len(data)>>; nat is what the
\* native function answers
PixelCalls ==
    { [fn |-> "validatePixelInput", args |-> Append(a, b), nat |-> 0, done |-> FALSE] :
        a \in PixelArgs, b \in PixelSizes }
    \cup { [fn |-> f, args |-> a, nat |-> nat, done |-> FALSE] :
             f \in {"WebPEncodeRGB", "WebPEncodeLosslessRGBA"}, a \in PixelArgs,
             nat \in NatEncode }
    \cup { [fn |-> "WebPDecodeRGBAInto", args |-> <<n, a[1], a[2], info>>, nat |-> ptr,
            done |-> FALSE] :
             n \in DecodeDataLens, a \in PixelInto, info \in NatInfo, ptr \in NatHandles }
    \cup { [fn |-> f, args |-> <<idec, n>>, nat |-> st, done |-> FALSE] :
             f \in {"WebPIAppend", "WebPIUpdate"}, idec \in NatHandles,
             n \in DecodeDataLens, st \in NatStatuses }
    \cup { [fn |-> "WebPIDecode", args |-> <<n>>, nat |-> idec, done |-> FALSE] :
             n \in DecodeDataLens, idec \in NatHandles }

\* the goroutine that makes the call
Caller == CHOOSE t \in Threads : TRUE

\* a process that has loaded nothing yet, where no candidate library opens
\* or the first opens and exports every symbol
InitPixels ==
    /\ px \in PixelCalls
    /\ goos = "linux"
    /\ openable \in {{}, {candidateLibNames(goos)[1]}}
    /\ exported = (IF openable = {} THEN {} ELSE AllSymbols)
    /\ InitLoader
    /\ genIn = <<>>
    /\ genOut = NotRun
    /\ lay = NoLayout

\* the wrapper of the call px is called: it begins with EnsureLoaded()
CallPixels ==
    /\ px.fn # "validatePixelInput"
    /\ ~px.done
    /\ Call(Caller)

\* the call px of the wrapper fn goes on after its EnsureLoaded() and
\* returns r, or panics
Applied(fn, r) ==
    /\ px.fn = fn
    /\ ~px.done
    /\ px' = [px EXCEPT !.done = TRUE]
    /\ PixelsReturn(Caller, fn, WithArgs(r, px.args))

\* validatePixelInput, which reads its arguments only, is applied
ApplyValidatePixelInput ==
    /\ px.fn = "validatePixelInput"
    /\ ~px.done
    /\ last' = Result(px.fn,
                      WithArgs(CallResult(validatePixelInput(px.args[1], px.args[2],
                                                             px.args[3], px.args[4],
                                                             px.args[5]),
                                          <<>>, "none", 0),
                               px.args),
                      FALSE)
    /\ px' = [px EXCEPT !.done = TRUE]
    /\ UNCHANGED <<envVars, loaderVars, pc, loc, calls, ghostVars, genVars, lay>>

\* WebPEncodeRGB(rgb, width, height, stride, quality)
ApplyEncodeRGB ==
    Applied("WebPEncodeRGB",
            encodeWithQuality(loadErr, px.args[1], px.args[2], px.args[3], px.args[4], 3,
                              px.nat))

\* WebPEncodeLosslessRGBA(rgba, width, height, stride)
ApplyEncodeLossless ==
    Applied("WebPEncodeLosslessRGBA",
            encodeLossless(loadErr, px.args[1], px.args[2], px.args[3], px.args[4], 4,
                           px.nat))

\* WebPDecodeRGBAInto(data, outputBuffer, outputStride)
ApplyDecodeInto ==
    Applied("WebPDecodeRGBAInto",
            decodeInto(loadErr, px.args[1], px.args[2], px.args[3], 4, px.args[4], px.nat))

ApplyIAppend ==
    Applied("WebPIAppend", WebPIAppend(loadErr, px.args[1], px.args[2], px.nat))

ApplyIUpdate ==
    Applied("WebPIUpdate", WebPIUpdate(loadErr, px.args[1], px.args[2], px.nat))

ApplyIDecode ==
    Applied("WebPIDecode", WebPIDecode(loadErr, px.args[1], px.nat))

\* one goroutine makes the call: sync.Once takes its slow path
NextPixels ==
    \/ CallPixels
    \/ OnceSlow(Caller)
    \/ OnceLock(Caller)
    \/ OpenLibStep(Caller)
    \/ RegisterStep(Caller)
    \/ OnceFinish(Caller)
    \/ ApplyValidatePixelInput
    \/ ApplyEncodeRGB
    \/ ApplyEncodeLossless
    \/ ApplyDecodeInto
    \/ ApplyIAppend
    \/ ApplyIUpdate
    \/ ApplyIDecode

SpecPixels == InitPixels /\ [][NextPixels]_vars

(***************************************************************************)
(* The load state of the process                                          *)
(***************************************************************************)
InLoad(t) == pc[t] \in {"open", "reg", "exit"}

LoadState ==
    IF \E t \in Threads : InLoad(t) THEN "loading"
    ELSE IF openPasses = 0 THEN "unloaded"
    ELSE IF loadErr = NilErr THEN "loaded"
    ELSE "failed"

Terminal == LoadState \in {"loaded", "failed"}

Names == candidateLibNames(goos)

\* index of the earliest candidate that opens (0: none does)
FirstOpenable ==
    IF \E i \in 1..Len(Names) : Names[i] \in openable
    THEN CHOOSE i \in 1..Len(Names) :
            /\ Names[i] \in openable
            /\ \A j \in 1..(i - 1) : Names[j] \notin openable
    ELSE 0

\* index in Bindings of the first mandatory binding whose symbol the library
\* lacks (0: none)
FirstMissing ==
    IF \E i \in MandatoryIdx : Bindings[i].symbol \notin exported
    THEN CHOOSE i \in MandatoryIdx :
            /\ Bindings[i].symbol \notin exported
            /\ \A j \in MandatoryIdx : j < i => Bindings[j].symbol \in exported
    ELSE 0

(***************************************************************************)
(* Claims                                                                  *)
(***************************************************************************)

\* C1: however many calls are made, concurrently or one after the other,
\* openLib runs at most once, registerAll runs at most once, and every
\* EnsureLoaded call made so far has returned the same value.
C1_LoadAtMostOnce ==
    /\ openPasses <= 1
    /\ regPasses <= 1
    /\ Cardinality(returned) <= 1

\* C1 witness: a caller that found the flag clear waits for the mutex while
\* the load, run once by another goroutine, is over and has been returned.
C1_Witness ==
    \E t, u \in Threads :
        /\ t # u
        /\ pc[u] = "lock"
        /\ pc[t] = "idle"
        /\ onceDone
        /\ openPasses = 1
        /\ regPasses = 1
        /\ returned # {}

\* C2: a goroutine is past loadOnce.Do (about to read loadErr and the function
\* pointers, or back from doing so) only when the load has reached loaded or
\* failed: the flag is set and no goroutine is inside the load.
C2_NoReturnWhileLoading ==
    /\ \A t \in Threads : pc[t] = "after_do" => (onceDone /\ Terminal)
    /\ (last.op # "none" \/ returned # {}) => (onceDone /\ Terminal)

\* C2 witness: one goroutine is in the middle of registration, some pointers
\* bound, and another one is blocked on the load.
C2_Witness ==
    \E t, u \in Threads :
        /\ t # u
        /\ pc[t] = "reg"
        /\ loc[t].i > 2
        /\ fnPtrs # {}
        /\ pc[u] = "lock"

\* C3: once the load is loaded or failed it stays so for ever: the outcome,
\* the bound pointers, and the logs of open and resolve attempts never change
\* again, and every call returning afterwards returns the memoized outcome.
C3_TerminalIsSticky ==
    [][Terminal =>
          /\ Terminal'
          /\ loadErr' = loadErr
          /\ fnPtrs' = fnPtrs
          /\ dlopenLog' = dlopenLog
          /\ dlsymLog' = dlsymLog
          /\ openPasses' = openPasses
          /\ regPasses' = regPasses
          /\ returned' \subseteq {loadErr}]_vars

\* C3 witness: the load failed and all the calls of the behaviour have
\* returned, the later ones included.
C3_Witness ==
    /\ LoadState = "failed"
    /\ calls = MaxCalls
    /\ \A t \in Threads : pc[t] = "idle"
    /\ returned = {loadErr}

\* C4: Dlopen is called on the candidates in list order, only names that do
\* not open come before the last attempt, and the handle openLib returns is
\* that of the earliest candidate that opens, after which none is tried.
C4_FirstOpenableWins ==
    /\ Len(dlopenLog) <= Len(Names)
    /\ \A i \in 1..Len(dlopenLog) : dlopenLog[i] = Names[i]
    /\ \A i \in 1..(Len(dlopenLog) - 1) : dlopenLog[i] \notin openable
    /\ \A t \in Threads :
          pc[t] = "reg" => /\ FirstOpenable > 0
                           /\ loc[t].h = Names[FirstOpenable]
                           /\ Len(dlopenLog) = FirstOpenable
    /\ regPasses > 0 => Len(dlopenLog) = FirstOpenable

\* C4 witness: on linux the second candidate is the first that opens, a
\* later candidate would open too, and registration is under way.
C4_Witness ==
    /\ goos = "linux"
    /\ FirstOpenable = 2
    /\ Names[4] \in openable
    /\ \E t \in Threads : pc[t] = "reg" /\ loc[t].h = Names[2]

\* C5: when no candidate opens, the memoized error is the join of one entry
\* per candidate, in list order, each with its name and cause; Available()
\* returns false; and Dlopen has been called exactly once per candidate
\* however many calls have been made.
C5_AllCandidatesFail ==
    (openable = {} /\ Terminal) =>
        /\ loadErr = Err("join", "",
                         [i \in 1..Len(Names) |-> WrapOpen(Names[i], DlError(Names[i]))])
        /\ dlopenLog = Names
        /\ openPasses = 1
        /\ regPasses = 0
        /\ dlsymLog = <<>>
        /\ (last.op = "Available" => last.ok = FALSE)
        /\ (last.op = "EnsureLoaded" => last.err = loadErr)

\* C5 witness: linux without any library; every call has been made and the
\* last one to return was Available().
C5_Witness ==
    /\ goos = "linux"
    /\ openable = {}
    /\ Terminal
    /\ calls = MaxCalls
    /\ \A t \in Threads : pc[t] = "idle"
    /\ last.op = "Available"
    /\ last.ok = FALSE

\* C6: when a library opens and a mandatory symbol is missing, the load
\* fails with the error of the first missing mandatory symbol, naming it,
\* while the bindings registered before it stay bound; EnsureLoaded returns
\* that error.
C6_MandatoryMissingFails ==
    (openable # {} /\ FirstMissing > 0 /\ Terminal) =>
        /\ LoadState = "failed"
        /\ loadErr = WrapResolve(Bindings[FirstMissing].symbol,
                                 DlError(Bindings[FirstMissing].symbol))
        /\ fnPtrs = {Bindings[i].name : i \in {j \in 1..(FirstMissing - 1) :
                                                   Bindings[j].symbol \in exported}}
        /\ (last.op = "EnsureLoaded" => last.err = loadErr)
        /\ (last.op = "Available" => last.ok = FALSE)

\* C6 witness: the load failed on a missing mandatory symbol after other
\* mandatory bindings were bound, and EnsureLoaded has returned.
C6_Witness ==
    /\ Terminal
    /\ loadErr.kind = "resolve"
    /\ FirstMissing > 2
    /\ "xWebPGetInfo" \in fnPtrs
    /\ last.op = "EnsureLoaded"
    /\ last.err # NilErr

\* C7: when a library opens and all mandatory symbols resolve, the load
\* succeeds whether or not the optional symbol resolves: EnsureLoaded returns
\* nil, Available() true, all mandatory bindings are bound, and
\* ValidateDecoderConfigAvailable() tells whether the optional symbol resolved.
C7_OptionalMissingSucceeds ==
    (openable # {} /\ FirstMissing = 0 /\ Terminal) =>
        /\ LoadState = "loaded"
        /\ MandatoryPtrs \subseteq fnPtrs
        /\ ("xWebPValidateDecoderConfig" \in fnPtrs) = ("WebPValidateDecoderConfig" \in exported)
        /\ (last.op = "EnsureLoaded" => last.err = NilErr)
        /\ (last.op = "Available" => last.ok = TRUE)
        /\ (last.op = "ValidateDecoderConfigAvailable" =>
                last.ok = ("WebPValidateDecoderConfig" \in exported))

\* C7 witness: the load succeeded without the optional symbol and
\* ValidateDecoderConfigAvailable() has answered false.
C7_Witness ==
    /\ LoadState = "loaded"
    /\ "WebPValidateDecoderConfig" \notin exported
    /\ MandatoryPtrs \subseteq fnPtrs
    /\ last.op = "ValidateDecoderConfigAvailable"
    /\ last.ok = FALSE

\* C8: Available() returns true exactly when the memoized outcome is nil,
\* hands out no error, and once it has returned the load is loaded or failed.
C8_AvailableIsOutcome ==
    last.op = "Available" =>
        /\ last.ok \in BOOLEAN
        /\ last.ok = (loadErr = NilErr)
        /\ last.err = NilErr
        /\ onceDone
        /\ Terminal

\* C8 witness: the first call of the process was Available(), with nothing
\* loaded before; the library opened, a mandatory symbol was missing, and it
\* returned false.
C8_Witness ==
    /\ calls = 1
    /\ last.op = "Available"
    /\ last.ok = FALSE
    /\ loadErr.kind = "resolve"

\* C9: a wrapper whose native call signals failure returns the sentinel error
\* of that call and changes nothing of the loader: the flag, the memoized
\* outcome and the bound pointers are as before.
C9_NativeFailureIsLocal ==
    [][(\E t \in Threads : /\ pc[t] = "after_do"
                           /\ pc'[t] = "idle"
                           /\ last'.op \in WrapperOps
                           /\ last'.native = "failed")
          => /\ last'.err = (IF last'.op = "WebPEncodeRGBA"
                             THEN ErrEncodeFailed ELSE ErrDecodeFailed)
             /\ loadErr' = loadErr /\ loadErr = NilErr
             /\ fnPtrs' = fnPtrs
             /\ onceDone' = onceDone
             /\ onceM' = onceM]_vars

\* C9 witness: after a native call has signalled failure, a later wrapper
\* call has succeeded.
C9_Witness ==
    /\ nativeFailed
    /\ last.op \in WrapperOps
    /\ last.native = "ok"
    /\ last.err = NilErr
    /\ LoadState = "loaded"

(***************************************************************************)
(* The generator run on a descriptor list                                  *)
(***************************************************************************)
\* the descriptors the lists are made of: parameters unnamed, named and
\* grouped; no, one, one named and several results; nested types; an alias;
\* an optional descriptor; a name declared twice; a text that goes on with
\* the identifier list; texts that do not parse; a text that is a type but
\* no function type
DescriptorPool ==
    { SpecFunction("WebPGetDecoderVersion", <<"func", "(", ")", "int32">>, "", FALSE),
      SpecFunction("WebPFree", <<"func", "(", "uintptr", ")">>, "", FALSE),
      SpecFunction("WebPGetInfo",
          <<"func", "(", "data", "*", "byte", ",", "dataSize", "uintptr", ",",
            "width", ",", "height", "*", "int32", ")", "int32">>, "", FALSE),
      SpecFunction("WebPDecodeRGBA",
          <<"func", "(", "*", "byte", ",", "uintptr", ",", "*", "int32", ",",
            "*", "int32", ")", "*", "byte">>, "", FALSE),
      SpecFunction("WebPGetFeaturesInternal",
          <<"func", "(", "data", "[]", "byte", ",", "version", "int32", ")",
            "(", "status", "int32", ")">>, "WebPGetFeaturesInternal", FALSE),
      SpecFunction("WebPValidateDecoderConfig",
          <<"func", "(", "config", "uintptr", ")", "(", "int32", ",", "bool", ")">>,
          "", TRUE),
      SpecFunction("WebPPictureInit",
          <<"func", "(", "hook", "func", "(", "int32", ",", "(", "uintptr", ")", ")", "bool",
            ",", "size", "uintptr", ")", "(", "ok", ",", "done", "bool", ",", "n", "int32", ")">>,
          "WebPPictureInitInternal", FALSE),
      SpecFunction("WebPEncode", <<"func", "(", "config", "uintptr">>, "", FALSE),
      SpecFunction("WebPIDelete", <<"func", "(", "idec", "uintptr", ",", "*", "byte", ")">>,
          "", FALSE),
      SpecFunction("WebPINewDecoder", <<"func", "(", "a", ",", "a", "uintptr", ")">>, "", TRUE),
      SpecFunction("WebPIAppend", <<",", "status", "func", "(", ")">>, "", FALSE),
      SpecFunction("WebPMemoryWriterInit", <<"*", "byte">>, "", FALSE) }

\* the sequences over S of length at most n
SeqsUpTo(S, n) == UNION {[1..k -> S] : k \in 0..n}

InitGen ==
    /\ genIn \in SeqsUpTo(DescriptorPool, MaxFuncs)
    /\ genOut = NotRun
    /\ lay = NoLayout
    /\ px = NoCall
    /\ goos = "linux"
    /\ openable = {}
    /\ exported = {}
    /\ InitLoader

\* go run ./cmd/gen: main runs on the descriptor list, every call it makes
\* of the system and the template succeeding, or one of them failing
Generate ==
    /\ ~genOut.ran
    /\ \E fails \in MainFailures : genOut' = GenMain(genIn, fails)
    /\ UNCHANGED <<genIn, envVars, loaderVars, threadVars, ghostVars, lay, px>>

NextGen == Generate

SpecGen == InitGen /\ [][NextGen]_vars

\* main has run as far as buildTemplateData, which was called on genIn
Built == genOut.ran /\ genOut.at \notin Range(BeforeBuild)

\* every descriptor of the list has a signature that parses as a function type
AllParse(functions) ==
    \A i \in 1..Len(functions) : parseFunction(functions[i]).status = "ok"

\* C10: for a descriptor list whose signatures all parse (as function
\* types), buildTemplateData returns without error one binding per
\* descriptor, the i-th being the binding of the i-th descriptor and having
\* its name.
C10_OneBindingPerDescriptor ==
    (Built /\ AllParse(genIn)) =>
        /\ genOut.data.status = "ok"
        /\ genOut.data.err = NilErr
        /\ Len(genOut.data.funcs) = Len(genIn)
        /\ \A i \in 1..Len(genIn) :
              /\ genOut.data.funcs[i].Name = genIn[i].Name
              /\ genOut.data.funcs[i] = parseFunction(genIn[i]).fn

\* C10 witness: a list of three descriptors with different names, all
\* parsing, has been generated.
C10_Witness ==
    /\ genOut.ran
    /\ AllParse(genIn)
    /\ Len(genIn) = 3
    /\ genIn[1].Name # genIn[2].Name
    /\ genIn[2].Name # genIn[3].Name
    /\ genIn[1].Optional
    /\ Len(genOut.data.funcs) = 3

\* the function type the signature of descriptor sf denotes
SigType(sf) == ParseFile(sf.Signature).node

\* a generation that returned its bindings
Generated == genOut.ran /\ genOut.data.status = "ok"

\* C11: the result text of a binding follows the results of its signature:
\* none gives the empty text and HasReturn false; one result without a name
\* gives a blank and the bare type, HasReturn true; two or more results, or
\* a named one, give the parenthesised list, HasReturn true.
C11_ResultShape ==
    Generated =>
        \A i \in 1..Len(genIn) :
            LET rs == SigType(genIn[i]).results
                f  == genOut.data.funcs[i]
            IN  /\ Len(rs) = 0 => (f.Results = "" /\ ~f.HasReturn)
                /\ (Len(rs) = 1 /\ rs[1].names = <<>>) =>
                      (f.Results = " " \o typesExprString(rs[1].type) /\ f.HasReturn)
                /\ (Len(rs) >= 2 \/ \E k \in 1..Len(rs) : rs[k].names # <<>>) =>
                      /\ f.HasReturn
                      /\ f.Results =
                           " (" \o JoinStr([k \in 1..Len(rs) |->
                                   NamesAndType(rs[k].names, typesExprString(rs[k].type))],
                                   ", ") \o ")"

\* C11 witness: one generation gave a binding without result, one with a
\* bare result and one with a single named result in parentheses.
C11_Witness ==
    /\ Generated
    /\ Len(genIn) = 3
    /\ genOut.data.funcs[1].Results = "" /\ ~genOut.data.funcs[1].HasReturn
    /\ genOut.data.funcs[2].Results = " *byte"
    /\ genOut.data.funcs[3].Results = " (status int32)"

RECURSIVE ForwardNames(_, _)
\* the names forwarded for the parameter fields from field i on: the names of
\* a named field, and arg<k> for an unnamed one that k unnamed fields precede
ForwardNames(fields, i) ==
    IF i > Len(fields) THEN <<>>
    ELSE (IF fields[i].names # <<>> THEN fields[i].names
          ELSE <<"arg" \o ToString(Cardinality({j \in 1..(i - 1) : fields[j].names = <<>>}))>>)
         \o ForwardNames(fields, i + 1)

\* C12: the argument text of a binding lists, in declaration order, one name
\* per parameter: the declared names of named parameters (each name of a
\* grouped declaration), and arg<k> for the k-th unnamed one; the names of the
\* parameter text are the same.
C12_ForwardedNames ==
    Generated =>
        \A i \in 1..Len(genIn) :
            LET ps == SigType(genIn[i]).params
                f  == genOut.data.funcs[i]
                names == ForwardNames(ps, 1)
            IN  /\ f.Args = "(" \o JoinStr(names, ", ") \o ")"
                /\ (\A a, b \in 1..Len(ps) :
                      (ps[a].names = <<>> /\ ps[b].names = <<>> /\ a # b)
                          => ForwardNames(ps, a)[1] # ForwardNames(ps, b)[1])
                /\ f.Params =
                     "(" \o JoinStr([k \in 1..Len(ps) |->
                            (IF ps[k].names = <<>> THEN ForwardNames(ps, k)[1]
                             ELSE JoinStr(ps[k].names, ", "))
                            \o " " \o typesExprString(ps[k].type)], ", ") \o ")"

\* C12 witness: one generation gave a binding with four synthetic names and
\* one whose grouped declaration forwards two names.
C12_Witness ==
    /\ Generated
    /\ Len(genIn) = 2
    /\ genOut.data.funcs[1].Args = "(arg0, arg1, arg2, arg3)"
    /\ genOut.data.funcs[2].Args = "(data, dataSize, width, height)"

\* C13: the native symbol of a binding is the alias of its descriptor when
\* one is given and the declared name otherwise; its call name is the
\* declared name.
C13_SymbolIsAliasOrName ==
    Generated =>
        \A i \in 1..Len(genIn) :
            /\ genOut.data.funcs[i].Name = genIn[i].Name
            /\ genIn[i].Symbol # "" => genOut.data.funcs[i].Symbol = genIn[i].Symbol
            /\ genIn[i].Symbol = "" => genOut.data.funcs[i].Symbol = genIn[i].Name

\* C13 witness: one generation gave a binding whose symbol is an alias other
\* than its name and one whose symbol is its name for want of an alias.
C13_Witness ==
    /\ Generated
    /\ Len(genIn) = 2
    /\ genIn[1].Symbol # "" /\ genOut.data.funcs[1].Symbol # genOut.data.funcs[1].Name
    /\ genIn[2].Symbol = "" /\ genOut.data.funcs[2].Symbol = genOut.data.funcs[2].Name

\* index in functions of the first descriptor whose signature text does not
\* denote a function type (0: every text does)
FirstMalformed(functions) ==
    IF AllParse(functions) THEN 0
    ELSE CHOOSE k \in 1..Len(functions) :
            /\ parseFunction(functions[k]).status # "ok"
            /\ \A j \in 1..(k - 1) : parseFunction(functions[j]).status = "ok"

\* C14: when the signature text of a descriptor does not denote a function
\* type, generation stops at the first such descriptor with an error naming
\* it, returns no binding and writes no file.
C14_MalformedStopsNamed ==
    (Built /\ FirstMalformed(genIn) # 0) =>
        /\ genOut.data.status = "error"
        /\ genOut.data.err = Err("parse signature", genIn[FirstMalformed(genIn)].Name, <<>>)
        /\ genOut.data.funcs = <<>>
        /\ ~genOut.written

\* the native function an ABI-version-checked initializer calls, and the
\* version constant of its family
VersionedCall(o) ==
    CASE o = "WebPGetFeatures"       -> <<"WebPGetFeaturesInternal", DecoderABI>>
      [] o = "WebPInitDecBuffer"     -> <<"WebPInitDecBufferInternal", DecoderABI>>
      [] o = "WebPInitDecoderConfig" -> <<"WebPInitDecoderConfigInternal", DecoderABI>>
      [] o = "WebPConfigInit"        -> <<"WebPConfigInitInternal", EncoderABI>>
      [] o = "WebPConfigPreset"      -> <<"WebPConfigInitInternal", EncoderABI>>
      [] o = "WebPPictureInit"       -> <<"WebPPictureInitInternal", EncoderABI>>

\* C15: a native call made by an ABI-version-checked initializer is the call
\* of its native function with, as the version argument (the last one), the
\* compiled-in constant of its family (decoder or encoder), whatever the
\* caller passed; an initializer makes at most one such call.
C15_FixedABIVersion ==
    last.op \in InitializerOps =>
        /\ Len(last.trace) <= 1
        /\ (last.native # "none") = (Len(last.trace) = 1)
        /\ \A k \in 1..Len(last.trace) :
              /\ last.trace[k].fn = VersionedCall(last.op)[1]
              /\ last.trace[k].args[Len(last.trace[k].args)] = VersionedCall(last.op)[2]
              /\ last.trace[k].args[Len(last.trace[k].args)].value = 528

\* C15 witness: WebPConfigPreset was called with preset 3 and quality 528 and
\* passed the encoder constant as the version.
C15_Witness ==
    /\ last.op = "WebPConfigPreset"
    /\ Len(last.trace) = 1
    /\ last.trace[1].args = <<Arg(3), Arg(528), EncoderABI>>

\* the offset the finished layout gives the field called name
OffsetOf(name) ==
    lay.st.offsets[CHOOSE i \in 1..Len(StructFields(lay.type)) :
                       StructFields(lay.type)[i].name = name]

\* the layout of the struct type name for 8-byte words is finished
LaidOut64(name) == lay.done /\ lay.word = 8 /\ lay.type = name

\* C16: with 8-byte pointers and sizes and 4-byte int32/uint32, WebPDecBuffer
\* is 120 bytes with BufferUnion at offset 16 and PrivateMemory at offset
\* 112; WebPRGBABuffer is 24 bytes and WebPYUVABuffer 80 bytes, and the
\* 80-byte BufferUnion is as large as the larger of the two.
C16_DecBufferLayout ==
    /\ LaidOut64("WebPDecBuffer") =>
          /\ lay.size = 120
          /\ OffsetOf("BufferUnion") = 16
          /\ OffsetOf("PrivateMemory") = 112
          /\ OffsetOf("Pad") - OffsetOf("BufferUnion") = 80
          /\ OffsetOf("Pad") - OffsetOf("BufferUnion")
               = Max(SizeAlign(StructOf("WebPRGBABuffer"), 8).size,
                     SizeAlign(StructOf("WebPYUVABuffer"), 8).size)
    /\ LaidOut64("WebPRGBABuffer") => lay.size = 24
    /\ LaidOut64("WebPYUVABuffer") => lay.size = 80
    /\ LaidOut64("WebPDecoderConfig") => OffsetOf("Options") - OffsetOf("Output") = 120

\* C16 witness: the layout of WebPDecBuffer for 8-byte words is finished,
\* all seven fields placed.
C16_Witness ==
    /\ LaidOut64("WebPDecBuffer")
    /\ Len(lay.st.offsets) = 7

\* the wrappers of one-shot native decode and encode calls
OneShotOps == {"WebPDecodeRGBA", "WebPDecodeYUV", "WebPEncodeRGBA", "WebPEncodeLosslessRGBA",
               "WebPEncodeRGB"}

\* the output buffer the native call c handed to its wrapper (0: null)
HandedBuffer(c) ==
    IF c.fn \in {"encodeLossyFunc", "encodeLosslessFunc"} THEN c.ret.out ELSE c.ret

\* the calls of WebPFree among the native calls of the last wrapper call
Frees == {k \in 1..Len(last.trace) : last.trace[k].fn = "WebPFree"}

\* C17: a one-shot decode or encode wrapper that was handed a non-null
\* output buffer by its native call has released it with WebPFree exactly
\* once when it returns, whatever the path, and WebPFree is never called for
\* a null buffer.
C17_ReleasedExactlyOnce ==
    (last.op \in OneShotOps /\ Len(last.trace) >= 1) =>
        /\ HandedBuffer(last.trace[1]) # 0 =>
              /\ Cardinality(Frees) = 1
              /\ \A k \in Frees : last.trace[k].args = <<HandedBuffer(last.trace[1])>>
        /\ \A k \in Frees : last.trace[k].args[1] # 0

\* C18: after a successful load that left the optional symbol
\* WebPValidateDecoderConfig unresolved, the wrapper WebPValidateDecoderConfig
\* never calls through the unbound function pointer: it makes no native call
\* and the process goes on.
C18_NoCallThroughUnboundPointer ==
    (/\ last.op = "WebPValidateDecoderConfig"
     /\ onceDone /\ loadErr = NilErr
     /\ "xWebPValidateDecoderConfig" \notin fnPtrs)
        => /\ last.native # "unbound"
           /\ last.trace = <<>>
           /\ \A t \in Threads : pc[t] # "crashed"

\* the zero values a wrapper returns beside its error
ZeroVals(o) ==
    CASE o \in {"WebPDecodeRGBA"} -> <<0, 0, 0, 0>>
      [] o \in {"WebPEncodeRGBA", "WebPEncodeLosslessRGBA", "WebPEncodeRGB",
                "WebPINewDecoder"} -> <<0>>
      [] o = "WebPDecodeYUV" -> <<0, 0, 0, 0, 0, 0, 0>>
      [] o \in {"WebPGetFeatures", "Version", "WebPDecodeRGBAInto"} -> <<0, 0>>
      [] o = "WebPGetInfo" -> <<0, 0, FALSE>>
      [] OTHER -> <<FALSE>>

\* C19: a wrapper makes a native call (the release by WebPFree included)
\* only after EnsureLoaded returned nil; when the load has failed, every
\* wrapper returns the load error with zero values and makes no native
\* call, whatever its arguments.
C19_NoNativeCallUnlessLoaded ==
    last.op # "none" =>
        /\ last.trace # <<>> => (onceDone /\ loadErr = NilErr)
        /\ loadErr # NilErr =>
              /\ last.err = loadErr
              /\ last.trace = <<>>
              /\ last.native = "none"
              /\ last.freed = 0
              /\ ~last.ok
              /\ last.vals = ZeroVals(last.op)

\* C19 witness: the load has failed and WebPDecodeRGBAInto, called with data,
\* a buffer large enough and a fitting stride, returned the load error.
C19_Witness ==
    /\ loadErr # NilErr
    /\ last.op = "WebPDecodeRGBAInto"
    /\ last.args[1] = 8 /\ last.args[2] = 8 /\ last.args[3] = GoInt(8)
    /\ last.err = loadErr

\* the native decoder was called by the last wrapper call
DecoderCalled == \E k \in 1..Len(last.trace) : last.trace[k].fn = "decodeIntoFunc"

\* the int s is at least w*b in the integers, w and b being plain numbers
\* whose product is a plain number
StrideHolds(s, w, b) == ~Less(s, GoInt(w * b))

\* m >= s*h in the integers, for the int s and the plain numbers m >= 0 and
\* h >= 0: s*h <= m exactly when h = 0 or s is at most the quotient of m by h
BufferHolds(m, s, h) == h = 0 \/ ~Less(GoInt(m \div h), s)

\* what decodeInto returns without calling the native decoder, by precedence,
\* for len(data) = n, len(outputBuffer) = m, the stride and what WebPGetInfo
\* answers, the products being those of the integers
IntoRefusal(n, m, outputStride, nat) ==
    IF loadErr # NilErr THEN loadErr
    ELSE IF n = 0 THEN ErrInvalidData
    ELSE IF m = 0 THEN ErrBufferTooSmall
    ELSE IF nat.ret = 0 THEN ErrInvalidData
    ELSE IF ~StrideHolds(outputStride, nat.w, 4) THEN ErrInvalidStride
    ELSE IF ~BufferHolds(m, outputStride, nat.h) THEN ErrBufferTooSmall
    ELSE NilErr

\* C20: decodeInto calls the native decoder exactly when the load succeeded,
\* the data is not empty, WebPGetInfo accepted it with (w, h), the stride is
\* at least w*bytesPerPixel and the buffer holds at least stride*h bytes;
\* otherwise it returns, without that call, the first of: the load error,
\* ErrInvalidData, ErrBufferTooSmall (empty output), ErrInvalidData (info
\* rejected), ErrInvalidStride, ErrBufferTooSmall.
C20_DecodeIntoGuards ==
    last.op = "WebPDecodeRGBAInto" =>
        /\ DecoderCalled =
              (/\ loadErr = NilErr
               /\ last.args[1] # 0
               /\ last.args[4].ret # 0
               /\ StrideHolds(last.args[3], last.args[4].w, 4)
               /\ BufferHolds(last.args[2], last.args[3], last.args[4].h))
        /\ ~DecoderCalled =>
              /\ last.err = IntoRefusal(last.args[1], last.args[2], last.args[3], last.args[4])
              /\ last.err # NilErr
              /\ last.vals = <<0, 0>>
        /\ DecoderCalled => last.err \in {NilErr, ErrDecodeFailed}

\* the value of the int x is within -2^15 .. 2^15 - 1, so that the products
\* of two such values are plain numbers
Fits(x) == GoInt(Int32(x)) = x /\ Int32(x) \in -32768..32767

\* the check of validatePixelInput that refuses a pixel slice of n bytes with
\* the width w, the height h, the stride s and b bytes per pixel, all plain
\* numbers: the first in the order dimension, stride, buffer
FirstRefusal(n, w, h, s, b) ==
    IF w <= 0 \/ h <= 0 THEN "dimension"
    ELSE IF s < w * b THEN "stride"
    ELSE IF n < s * h THEN "buffer"
    ELSE "none"

\* the check that the error err of validatePixelInput tells
Verdict(err) ==
    IF err = NilErr THEN "none"
    ELSE IF err = ErrInvalidDimension THEN "dimension"
    ELSE IF err = ErrInvalidStride THEN "stride"
    ELSE IF err.kind = "fmt" THEN "buffer"
    ELSE "other"

\* the wrappers that encode pixels, and the native functions they call
PixelOps == {"WebPEncodeRGB", "WebPEncodeLosslessRGBA"}
EncodeFns == {"encodeLossyFunc", "encodeLosslessFunc"}

\* len(data) of the native call c that receives &data[0], 1 for a call that
\* receives no data
DataLen(c) ==
    CASE c.fn \in {"WebPGetInfo", "decodeIntoFunc", "WebPIDecode"} -> c.args[1]
      [] c.fn \in {"WebPIAppend", "WebPIUpdate"} -> c.args[2]
      [] OTHER -> 1

\* C21: validatePixelInput refuses in the order ErrInvalidDimension (width
\* or height not positive), ErrInvalidStride (stride below
\* width*bytesPerPixel), buffer too small (len(pix) below stride*height);
\* every input it accepts has a non-empty pixel slice, so that no encode
\* wrapper takes the address of element 0 of an empty slice; and no wrapper
\* hands &data[0] of an empty data slice to a native function.
C21_AcceptedPixelsNotEmpty ==
    px.done =>
        /\ (/\ px.fn = "validatePixelInput"
            /\ \A k \in 2..4 : Fits(px.args[k]))
              => Verdict(last.err) =
                    FirstRefusal(px.args[1], Int32(px.args[2]), Int32(px.args[3]),
                                 Int32(px.args[4]), px.args[5])
        /\ (px.fn = "validatePixelInput" /\ last.err = NilErr) => px.args[1] > 0
        /\ px.fn \in PixelOps => last.native # "panic"
        /\ \A k \in 1..Len(last.trace) : DataLen(last.trace[k]) # 0

\* C22: in a call of encodeWithQuality, encodeLossless or decodeInto that
\* reaches the native function, the width, height and stride the native
\* function receives as int32 are the values the caller supplied.
C22_NativeReceivesSuppliedSizes ==
    px.done =>
        /\ (px.fn \in PixelOps /\ last.trace # <<>>) =>
              /\ last.trace[1].fn \in EncodeFns
              /\ \A k \in 1..3 : GoInt(last.trace[1].args[k]) = px.args[k + 1]
        /\ px.fn = "WebPDecodeRGBAInto" =>
              \A k \in 1..Len(last.trace) :
                  last.trace[k].fn = "decodeIntoFunc"
                      => GoInt(last.trace[k].args[3]) = px.args[3]

====
